---- MODULE Spec2Model ----
(***************************************************************************)
(* A model of the glow renderer of conrod_floatwin_demo_glow               *)
(* (src/src/conrod_glow.rs): Renderer::fill walks a stream of primitives   *)
(* and builds a vertex array and a list of prepared commands.              *)
(*                                                                         *)
(* Number representation.  The code computes in f64/f32.  The model uses   *)
(* fixed point integers:                                                   *)
(*   - conrod Scalars (logical coordinates) are counted in half units      *)
(*     (the integer n stands for n/2), so that .round() has ties to        *)
(*     decide;                                                             *)
(*   - device coordinates and texture coordinates are counted in           *)
(*     thousandths (NdcScale);                                             *)
(*   - colour components are counted in ten-thousandths (ColorScale).      *)
(***************************************************************************)
EXTENDS Integers, Sequences, FiniteSets, TLC

(***************************************************************************)
(* Bounds of the model.                                                    *)
(***************************************************************************)
\* The longest primitive stream one fill consumes.
MaxPrims == 3
\* How many glyphs the glyph cache texture has room for.
GlyphSlots == 2

(***************************************************************************)
(* Program constants.                                                      *)
(***************************************************************************)
MODE_TEXT == 0
MODE_IMAGE == 1
MODE_GEOMETRY == 2

\* Fixed point scales of the model's numbers.
NdcScale == 10 ^ 3
ColorScale == 10 ^ 4

(***************************************************************************)
(* Arithmetic helpers.                                                     *)
(***************************************************************************)
Min(a, b) == IF a < b THEN a ELSE b

Max(a, b) == IF a > b THEN a ELSE b

\* a / b rounded to the nearest integer (b > 0), ties away from zero: the
\* nearest representable value of an exact quotient.
DivRound(a, b) == IF a >= 0 THEN (2 * a + b) \div (2 * b)
                            ELSE -((2 * (-a) + b) \div (2 * b))

\* f64::round on a value counted in half units: to the nearest integer, ties
\* away from zero.
RoundHalfUnits(h) == IF h >= 0 THEN (h + 1) \div 2 ELSE -(((-h) + 1) \div 2)

\* `as u32` on a float: the cast saturates, so a negative value becomes 0.
\* (The upper saturation at 2^32 - 1 is out of reach of the model's numbers.)
AsU32(n) == IF n < 0 THEN 0 ELSE n

\* The product of two fixed point numbers of scale s.
FixMul(a, b, s) == DivRound(a * b, s)

(***************************************************************************)
(* Colours.                                                                *)
(***************************************************************************)
\* x^5 for a fixed point x of scale ColorScale.
Pow5(x) == FixMul(FixMul(FixMul(x, x, ColorScale), FixMul(x, x, ColorScale),
                         ColorScale), x, ColorScale)

\* The largest r in lo..hi with r^5 <= x, by bisection.
RECURSIVE Root5Search(_, _, _)
Root5Search(x, lo, hi) ==
    IF lo >= hi THEN lo
    ELSE LET mid == (lo + hi + 1) \div 2
         IN  IF Pow5(mid) <= x THEN Root5Search(x, mid, hi)
                               ELSE Root5Search(x, lo, mid - 1)

\* f32::powf(x, 2.4) = x^2 * (x^(1/5))^2, on fixed point numbers.
powf_2_4(x) ==
    LET r == Root5Search(x, 0, 2 * ColorScale)
    IN  FixMul(FixMul(x, x, ColorScale), FixMul(r, r, ColorScale), ColorScale)

\* The inner fn component of gamma_srgb_to_linear:
\*   if f <= 0.04045 { f / 12.92 } else { ((f + 0.055) / 1.055).powf(2.4) }
component(f) ==
    IF f * 10 <= 4045
    THEN DivRound(f * 100, 1292)
    ELSE powf_2_4(DivRound((f + 550) * 1000, 1055))

\* Converts gamma (brightness) from sRGB to linear color space: the three
\* colour components are converted, alpha is kept.
gamma_srgb_to_linear(c) == <<component(c[1]), component(c[2]), component(c[3]), c[4]>>

\* conrod_core::color::WHITE, as to_fsa() gives it.
WHITE == <<ColorScale, ColorScale, ColorScale, ColorScale>>

RED == <<ColorScale, 0, 0, ColorScale>>

\* sRGB mid gray, half transparent.
GRAY == <<ColorScale \div 2, ColorScale \div 2, ColorScale \div 2, ColorScale \div 2>>

\* A colour whose components lie on both sides of the 0.04045 threshold.
DARK == <<404, 405, 0, ColorScale>>

(***************************************************************************)
(* Rectangles (conrod_core::Rect), in half units.                          *)
(***************************************************************************)
MkRect(l, r, b, t) == [left |-> l, right |-> r, bottom |-> b, top |-> t]

\* Rect::w_h
w_h(rect) == <<rect.right - rect.left, rect.top - rect.bottom>>

\* Rect::l_r_b_t
l_r_b_t(rect) == <<rect.left, rect.right, rect.bottom, rect.top>>

(***************************************************************************)
(* Display metrics: the framebuffer size in pixels and the hidpi factor.   *)
(***************************************************************************)
Displays == { [w |-> 8, h |-> 4, dpi |-> 1], [w |-> 8, h |-> 4, dpi |-> 2] }

\* vx dividing by win_w where the code divides by half_win_w.
vx_by_win_w(x, display) == DivRound(x * display.dpi * NdcScale, 2 * display.w)

\* let vx = |x: Scalar| (x * dpi_factor / half_win_w) as f32;
\* x is in half units and half_win_w = w / 2, so x/2 * dpi / (w/2) = x*dpi / w.
vx(x, display) == DivRound(x * display.dpi * NdcScale, display.w)

\* vy with the y axis pointing down, as in window coordinates.
vy_downwards(y, display) == -DivRound(y * display.dpi * NdcScale, display.h)

\* let vy = |y: Scalar| (y * dpi_factor / half_win_h) as f32;
vy(y, display) == DivRound(y * display.dpi * NdcScale, display.h)

\* The scissor rect fill starts from: the whole framebuffer.
DefaultScizzor(display) ==
    [left |-> 0, bottom |-> 0, width |-> display.w, height |-> display.h]

\* The closure rect_to_gl_rect of fill.  left and bottom are rounded, cast
\* to u32 and max'ed with 0; width and height are min'ed with the screen size.
rect_to_gl_rect(rect, display) ==
    LET w      == w_h(rect)[1]
        h      == w_h(rect)[2]
        left   == AsU32(RoundHalfUnits(rect.left * display.dpi + display.w))
        bottom == AsU32(RoundHalfUnits(rect.bottom * display.dpi + display.h))
        width  == AsU32(RoundHalfUnits(w * display.dpi))
        height == AsU32(RoundHalfUnits(h * display.dpi))
    IN  [left   |-> Max(left, 0),
         bottom |-> Max(bottom, 0),
         width  |-> Min(width, display.w),
         height |-> Min(height, display.h)]

(***************************************************************************)
(* The image map (conrod_core::image::Map<Texture>): a function from the   *)
(* image ids present to their textures.                                    *)
(***************************************************************************)
\* The images of the map: ids 1 and 2 are present, id 3 is absent.
Texture(id) == [texture |-> 100 + id, width |-> 4, height |-> 2]

ImageMaps == { [id \in {1, 2} |-> Texture(id)] }

(***************************************************************************)
(* Primitives (conrod_core::render::Primitive): kind, scizzor (the clip    *)
(* rect) and rect, with the payload of the kind.  A field a kind does not  *)
(* have holds an empty sequence.  An Option is a sequence of length <= 1.  *)
(***************************************************************************)
Prim(kind, scizzor, rect, color, triangles, text, image_id, source_rect) ==
    [kind |-> kind, scizzor |-> scizzor, rect |-> rect, color |-> color,
     triangles |-> triangles, text |-> text, image_id |-> image_id,
     source_rect |-> source_rect]

\* Clip rects: the whole window (at dpi 1), a part of it whose left edge is
\* a tie for round(), one larger than the window, one right of the window.
ClipFull == MkRect(-8, 8, -4, 4)
ClipSmall == MkRect(-3, 5, -2, 2)
ClipBig == MkRect(-10, 10, -6, 6)
ClipFar == MkRect(20, 28, -4, 4)

RectSmall == MkRect(0, 4, -2, 2)

\* One triangle, as TrianglesSingleColor carries it: three points.
Tri1 == << <<0, 0>>, <<4, 0>>, <<0, 2>> >>

\* One triangle, as TrianglesMultiColor carries it: three (point, colour).
TriC1 == << << <<0, 0>>, RED>>, << <<4, 0>>, GRAY>>, << <<0, 2>>, DARK>> >>

\* Glyph runs: glyph 0 is a glyph with no pixel bounding box (white space).
TextShort == <<1, 0, 2>>

\* A run of more distinct glyphs than the cache has room for.
TextLong == [i \in 1..(GlyphSlots + 1) |-> i]

PRectangle(clip) == Prim("Rectangle", clip, RectSmall, GRAY, <<>>, <<>>, 0, <<>>)
PSingle(clip, tris) == Prim("TrianglesSingleColor", clip, ClipFull, RED, tris, <<>>, 0, <<>>)
PMulti(clip, tris) == Prim("TrianglesMultiColor", clip, ClipFull, <<>>, tris, <<>>, 0, <<>>)
PText(clip, text) == Prim("Text", clip, RectSmall, DARK, <<>>, text, 0, <<>>)
PImage(clip, id, color, src) == Prim("Image", clip, RectSmall, color, <<>>, <<>>, id, src)
POther(clip) == Prim("Other", clip, RectSmall, <<>>, <<>>, <<>>, 0, <<>>)

\* The primitives a stream may yield.
Primitives ==
    {PRectangle(ClipFull), PRectangle(ClipSmall)}
    \cup {PSingle(ClipFull, <<>>), PSingle(ClipFull, <<Tri1>>)}
    \cup {PMulti(ClipFar, <<>>), PMulti(ClipFull, <<TriC1, TriC1>>)}
    \cup {PText(ClipFull, TextShort), PText(ClipFull, TextLong)}
    \cup {PImage(ClipFull, 1, <<>>, <<>>), PImage(ClipSmall, 1, <<>>, <<>>),
          PImage(ClipFull, 2, <<GRAY>>, <<MkRect(2, 6, 0, 2)>>),
          PImage(ClipFull, 3, <<>>, <<>>)}
    \cup {POther(ClipSmall), POther(ClipBig)}

(***************************************************************************)
(* The rusttype glyph cache behind GlyphCache.cache, as fill uses it:      *)
(* queue_glyph, cache_queued and rect_for.  The cache texture has room for *)
(* GlyphSlots glyphs; slots[k] is the key of the glyph held in slot k.     *)
(***************************************************************************)
\* text.positioned_glyphs(dpi_factor): glyph i of the run, laid out left to
\* right at the scale of the display, with its pixel bounding box.
positioned_glyphs(text, dpi) ==
    [i \in 1..Len(text) |->
        [id |-> text[i], scale |-> dpi, has_bb |-> text[i] # 0,
         min |-> <<(i - 1) * dpi, 0>>, max |-> <<i * dpi, dpi>>]]

\* The cache key of a positioned glyph.
GlyphKey(g) == g.id

InSeq(x, seq) == \E i \in 1..Len(seq) : seq[i] = x

\* The keys of seq not in have, each once, in order of first appearance.
RECURSIVE NewKeys(_, _)
NewKeys(seq, have) ==
    IF seq = <<>> THEN <<>>
    ELSE IF InSeq(Head(seq), have) THEN NewKeys(Tail(seq), have)
    ELSE <<Head(seq)>> \o NewKeys(Tail(seq), Append(have, Head(seq)))

\* cache.queue_glyph for every glyph of the run: a glyph without a pixel
\* bounding box is not queued.
queue_glyphs(glyphs) ==
    LET kept == SelectSeq(glyphs, LAMBDA g : g.has_bb)
    IN  [i \in 1..Len(kept) |-> GlyphKey(kept[i])]

\* cache.cache_queued: the queued glyphs not yet cached are added; when they
\* do not fit beside the cached ones the cache is cleared and the queue is
\* cached from empty; when the queue does not fit an empty cache the result
\* is Err(NoRoomForWholeQueue).  (Err(GlyphTooLarge), for one glyph larger
\* than the texture, is the same outcome for fill: cache_queued returns Err.)
cache_queued(slots, queue) ==
    LET added == NewKeys(queue, slots)
        alone == NewKeys(queue, <<>>)
    IN  IF Len(slots) + Len(added) <= GlyphSlots
        THEN [ok |-> TRUE, slots |-> slots \o added]
        ELSE IF Len(alone) <= GlyphSlots
        THEN [ok |-> TRUE, slots |-> alone]
        ELSE [ok |-> FALSE, slots |-> <<>>]

SlotOf(slots, key) == CHOOSE k \in 1..Len(slots) : slots[k] = key

\* cache.rect_for: Ok(None) for a glyph without a bounding box,
\* Err(GlyphNotCached) for a glyph that is not in the cache, else
\* Ok(Some((uv_rect, screen_rect))).  The result is a sequence: empty unless
\* Ok(Some(..)).
rect_for(slots, g) ==
    IF ~g.has_bb \/ ~InSeq(GlyphKey(g), slots) THEN <<>>
    ELSE LET k == SlotOf(slots, GlyphKey(g))
         IN  << [uv_rect |-> [min |-> <<DivRound((k - 1) * NdcScale, GlyphSlots), 0>>,
                              max |-> <<DivRound(k * NdcScale, GlyphSlots), NdcScale>>],
                 screen_rect |-> [min |-> g.min, max |-> g.max]] >>

(***************************************************************************)
(* Renderer::fill.  FillState is the part of the Renderer that fill        *)
(* writes, with the locals of fill: a record                               *)
(*   commands, vertices, glyph_cache, current_state, current_scizzor,      *)
(*   panicked.                                                             *)
(***************************************************************************)
\* PreparedCommand
CmdPlain(start, end) == [tag |-> "Plain", start |-> start, end |-> end]
CmdImage(id, start, end) == [tag |-> "Image", image_id |-> id, start |-> start, end |-> end]
CmdScizzor(rect) == [tag |-> "Scizzor", rect |-> rect]

\* enum State of fill
StatePlain(start) == [tag |-> "Plain", start |-> start]
StateImage(id, start) == [tag |-> "Image", image_id |-> id, start |-> start]

Vertex(mode, position, tex_coords, color) ==
    [mode |-> mode, position |-> position, tex_coords |-> tex_coords, color |-> color]

\* The command that closes the open range of the draw state st at vertex n.
CloseCommand(st, n) ==
    IF st.tag = "Plain" THEN CmdPlain(st.start, n)
                        ELSE CmdImage(st.image_id, st.start, n)

\* fill, before the loop: both buffers are cleared, the state is Plain from 0
\* and the scissor rect is the whole framebuffer.
fill_begin(glyph_cache_, display_) ==
    [commands |-> <<>>, vertices |-> <<>>, glyph_cache |-> glyph_cache_,
     current_state |-> StatePlain(0),
     current_scizzor |-> DefaultScizzor(display_),
     panicked |-> FALSE]

\* switch_to_plain_state without the arm `State::Plain { .. } => ()`: the open
\* range is closed whatever the state is.
switch_to_plain_state_always(f) ==
    [f EXCEPT
        !.commands = Append(@, CloseCommand(f.current_state, Len(f.vertices))),
        !.current_state = StatePlain(Len(f.vertices))]

\* switch_to_plain_state that leaves an Image state as it is.
switch_to_plain_state_stay(f) == f

\* macro switch_to_plain_state
switch_to_plain_state(f) ==
    IF f.current_state.tag = "Plain" THEN f
    ELSE [f EXCEPT
            !.commands = Append(@, CmdImage(f.current_state.image_id,
                                            f.current_state.start, Len(f.vertices))),
            !.current_state = StatePlain(Len(f.vertices))]

\* scizzor_check without "Finish the current command": only the Scizzor
\* command is pushed and the open range goes on.
scizzor_check_no_finish(f, p, display_) ==
    LET new_scizzor == rect_to_gl_rect(p.scizzor, display_)
    IN  IF new_scizzor # f.current_scizzor
        THEN [f EXCEPT
                !.commands = Append(@, CmdScizzor(new_scizzor)),
                !.current_scizzor = new_scizzor]
        ELSE f

\* scizzor_check that produces the Scizzor command before it finishes the
\* current command.
scizzor_check_scizzor_first(f, p, display_) ==
    LET new_scizzor == rect_to_gl_rect(p.scizzor, display_)
    IN  IF new_scizzor # f.current_scizzor
        THEN [f EXCEPT
                !.commands = @ \o << CmdScizzor(new_scizzor),
                                     CloseCommand(f.current_state, Len(f.vertices)) >>,
                !.current_scizzor = new_scizzor,
                !.current_state = StatePlain(Len(f.vertices))]
        ELSE f

\* scizzor_check without the comparison: every primitive closes the range and
\* sets the scissor rect.
scizzor_check_always(f, p, display_) ==
    LET new_scizzor == rect_to_gl_rect(p.scizzor, display_)
    IN  [f EXCEPT
            !.commands = @ \o << CloseCommand(f.current_state, Len(f.vertices)),
                                 CmdScizzor(new_scizzor) >>,
            !.current_scizzor = new_scizzor,
            !.current_state = StatePlain(Len(f.vertices))]

\* scizzor_check without "Set the state back to plain drawing": the draw
\* state open before the clip change stays open.
scizzor_check_keep_state(f, p, display_) ==
    LET new_scizzor == rect_to_gl_rect(p.scizzor, display_)
    IN  IF new_scizzor # f.current_scizzor
        THEN [f EXCEPT
                !.commands = @ \o << CloseCommand(f.current_state, Len(f.vertices)),
                                     CmdScizzor(new_scizzor) >>,
                !.current_scizzor = new_scizzor]
        ELSE f

\* "Check for a Scizzor command": the head of the loop body.
scizzor_check(f, p, display_) ==
    LET new_scizzor == rect_to_gl_rect(p.scizzor, display_)
    IN  IF new_scizzor # f.current_scizzor
        THEN [f EXCEPT
                !.commands = @ \o << CloseCommand(f.current_state, Len(f.vertices)),
                                     CmdScizzor(new_scizzor) >>,
                !.current_scizzor = new_scizzor,
                !.current_state = StatePlain(Len(f.vertices))]
        ELSE f

\* The six vertices of the two triangles of a quad, in the order the
\* Rectangle and Image arms push them: (l,t) (r,b) (l,b) (l,t) (r,b) (r,t).
QuadCorners(l, r, b, t) ==
    << <<l, t>>, <<r, b>>, <<l, b>>, <<l, t>>, <<r, b>>, <<r, t>> >>

\* PrimitiveKind::Rectangle { color }
fill_rectangle(f0, p, display_) ==
    LET f     == switch_to_plain_state(f0)
        color == gamma_srgb_to_linear(p.color)
        lrbt  == l_r_b_t(p.rect)
        cs    == QuadCorners(lrbt[1], lrbt[2], lrbt[3], lrbt[4])
        v(c)  == Vertex(MODE_GEOMETRY, <<vx(c[1], display_), vy(c[2], display_)>>,
                        <<0, 0>>, color)
    IN  [f EXCEPT !.vertices = @ \o [i \in 1..6 |-> v(cs[i])]]

\* The points of a batch of triangles, flattened: three per triangle.
FlatTriangles(triangles) ==
    [i \in 1..(3 * Len(triangles)) |-> triangles[((i - 1) \div 3) + 1][((i - 1) % 3) + 1]]

\* PrimitiveKind::TrianglesSingleColor { color, triangles }
fill_triangles_single(f0, p, display_) ==
    IF p.triangles = <<>> THEN f0
    ELSE LET f     == switch_to_plain_state(f0)
             color == gamma_srgb_to_linear(p.color)
             pts   == FlatTriangles(p.triangles)
             v(q)  == Vertex(MODE_GEOMETRY, <<vx(q[1], display_), vy(q[2], display_)>>,
                             <<0, 0>>, color)
         IN  [f EXCEPT !.vertices = @ \o [i \in 1..Len(pts) |-> v(pts[i])]]

\* PrimitiveKind::TrianglesMultiColor { triangles }
fill_triangles_multi(f0, p, display_) ==
    IF p.triangles = <<>> THEN f0
    ELSE LET f     == switch_to_plain_state(f0)
             pts   == FlatTriangles(p.triangles)
             v(pc_) == Vertex(MODE_GEOMETRY,
                              <<vx(pc_[1][1], display_), vy(pc_[1][2], display_)>>,
                              <<0, 0>>, gamma_srgb_to_linear(pc_[2]))
         IN  [f EXCEPT !.vertices = @ \o [i \in 1..Len(pts) |-> v(pts[i])]]

\* The closure to_gl_rect of the Text arm: a pixel rect of the screen, y
\* down, to device coordinates.
to_gl_rect(screen_rect, display_) ==
    LET gx(px) == DivRound(px * 2 * NdcScale, display_.w) - NdcScale
        gy(py) == NdcScale - DivRound(py * 2 * NdcScale, display_.h)
    IN  [min |-> <<gx(screen_rect.min[1]), gy(screen_rect.min[2])>>,
         max |-> <<gx(screen_rect.max[1]), gy(screen_rect.max[2])>>]

\* GlyphVertices with the quad pushed as its four corners.
GlyphVertices_corners(placement, color, display_) ==
    LET gl == to_gl_rect(placement.screen_rect, display_)
        uv == placement.uv_rect
        v(p_, t_) == Vertex(MODE_TEXT, p_, t_, color)
    IN  << v(<<gl.min[1], gl.max[2]>>, <<uv.min[1], uv.max[2]>>),
           v(<<gl.min[1], gl.min[2]>>, <<uv.min[1], uv.min[2]>>),
           v(<<gl.max[1], gl.min[2]>>, <<uv.max[1], uv.min[2]>>),
           v(<<gl.max[1], gl.max[2]>>, <<uv.max[1], uv.max[2]>>) >>

\* The six vertices the Text arm pushes for one glyph with a placement.
GlyphVertices(placement, color, display_) ==
    LET gl == to_gl_rect(placement.screen_rect, display_)
        uv == placement.uv_rect
        v(p_, t_) == Vertex(MODE_TEXT, p_, t_, color)
    IN  << v(<<gl.min[1], gl.max[2]>>, <<uv.min[1], uv.max[2]>>),
           v(<<gl.min[1], gl.min[2]>>, <<uv.min[1], uv.min[2]>>),
           v(<<gl.max[1], gl.min[2]>>, <<uv.max[1], uv.min[2]>>),
           v(<<gl.max[1], gl.min[2]>>, <<uv.max[1], uv.min[2]>>),
           v(<<gl.max[1], gl.max[2]>>, <<uv.max[1], uv.max[2]>>),
           v(<<gl.min[1], gl.max[2]>>, <<uv.min[1], uv.max[2]>>) >>

\* TextVertices without the `if let Ok(Some(..))`: a glyph rect_for gives no
\* placement for gets six vertices too, of its own rect and an empty uv rect.
RECURSIVE TextVertices_unplaced(_, _, _, _, _)
TextVertices_unplaced(glyphs, i, slots, color, display_) ==
    IF i > Len(glyphs) THEN <<>>
    ELSE LET r == rect_for(slots, glyphs[i])
             none == [uv_rect |-> [min |-> <<0, 0>>, max |-> <<0, 0>>],
                      screen_rect |-> [min |-> glyphs[i].min, max |-> glyphs[i].max]]
         IN  GlyphVertices(IF r = <<>> THEN none ELSE r[1], color, display_)
             \o TextVertices_unplaced(glyphs, i + 1, slots, color, display_)

\* The vertices of the glyphs from index i on: six for each glyph that
\* rect_for gives Ok(Some(..)) for, none for the others.
RECURSIVE TextVertices(_, _, _, _, _)
TextVertices(glyphs, i, slots, color, display_) ==
    IF i > Len(glyphs) THEN <<>>
    ELSE LET r == rect_for(slots, glyphs[i])
         IN  (IF r = <<>> THEN <<>> ELSE GlyphVertices(r[1], color, display_))
             \o TextVertices(glyphs, i + 1, slots, color, display_)

\* fill_text without switch_to_plain_state!(): the glyphs go into the range
\* that is open, an Image range too.
fill_text_no_switch(f0, p, display_) ==
    LET glyphs == positioned_glyphs(p.text, display_.dpi)
        cached == cache_queued(f0.glyph_cache, queue_glyphs(glyphs))
        color  == gamma_srgb_to_linear(p.color)
    IN  IF ~cached.ok
        THEN [f0 EXCEPT !.glyph_cache = cached.slots, !.panicked = TRUE]
        ELSE [f0 EXCEPT !.glyph_cache = cached.slots,
                        !.vertices = @ \o TextVertices(glyphs, 1, cached.slots,
                                                       color, display_)]

\* PrimitiveKind::Text { color, text, font_id }: cache_queued(..).unwrap()
\* panics when the cache returns Err.
fill_text(f0, p, display_) ==
    LET f      == switch_to_plain_state(f0)
        glyphs == positioned_glyphs(p.text, display_.dpi)
        cached == cache_queued(f.glyph_cache, queue_glyphs(glyphs))
        color  == gamma_srgb_to_linear(p.color)
    IN  IF ~cached.ok
        THEN [f EXCEPT !.glyph_cache = cached.slots, !.panicked = TRUE]
        ELSE [f EXCEPT !.glyph_cache = cached.slots,
                       !.vertices = @ \o TextVertices(glyphs, 1, cached.slots,
                                                      color, display_)]

\* switch_to_image_state with the new range opened where the old one began.
switch_to_image_state_keep_start(f, new_image_id) ==
    IF f.current_state.tag = "Image" /\ f.current_state.image_id = new_image_id
    THEN f
    ELSE [f EXCEPT
            !.commands = Append(@, CloseCommand(f.current_state, Len(f.vertices))),
            !.current_state = StateImage(new_image_id, f.current_state.start)]

\* switch_to_image_state without the first arm: an Image primitive always
\* closes the open range, also when it is the range of the same image.
switch_to_image_state_always(f, new_image_id) ==
    [f EXCEPT
        !.commands = Append(@, CloseCommand(f.current_state, Len(f.vertices))),
        !.current_state = StateImage(new_image_id, Len(f.vertices))]

\* The state switch at the head of the Image arm.
switch_to_image_state(f, new_image_id) ==
    IF f.current_state.tag = "Image" /\ f.current_state.image_id = new_image_id
    THEN f
    ELSE [f EXCEPT
            !.commands = Append(@, CloseCommand(f.current_state, Len(f.vertices))),
            !.current_state = StateImage(new_image_id, Len(f.vertices))]

\* The colour the Image arm stores: color.unwrap_or(color::WHITE).to_fsa().
image_color(color_opt) == IF color_opt = <<>> THEN WHITE ELSE color_opt[1]

\* fill_image with the image looked up by index (image_map[&image_id]), which
\* panics on an absent id.
fill_image_index(f0, p, display_, image_map_) ==
    LET f == switch_to_image_state(f0, p.image_id)
    IN  IF p.image_id \notin DOMAIN image_map_
        THEN [f EXCEPT !.panicked = TRUE]
        ELSE LET lrbt == l_r_b_t(p.rect)
                 cs   == QuadCorners(lrbt[1], lrbt[2], lrbt[3], lrbt[4])
                 v(c) == Vertex(MODE_IMAGE, <<vx(c[1], display_), vy(c[2], display_)>>,
                                <<0, 0>>, image_color(p.color))
             IN  [f EXCEPT !.vertices = @ \o [i \in 1..6 |-> v(cs[i])]]

\* PrimitiveKind::Image { image_id, color, source_rect }.  The closure v of
\* this arm repeats the arithmetic of vx and vy.
fill_image(f0, p, display_, image_map_) ==
    LET f     == switch_to_image_state(f0, p.image_id)
        color == image_color(p.color)
    IN  IF p.image_id \notin DOMAIN image_map_ THEN f
        ELSE LET image == image_map_[p.image_id]
                 uv    == IF p.source_rect = <<>>
                          THEN <<0, NdcScale, 0, NdcScale>>
                          ELSE LET s_ == l_r_b_t(p.source_rect[1])
                               IN  << DivRound(s_[1] * NdcScale, 2 * image.width),
                                      DivRound(s_[2] * NdcScale, 2 * image.width),
                                      DivRound(s_[3] * NdcScale, 2 * image.height),
                                      DivRound(s_[4] * NdcScale, 2 * image.height) >>
                 lrbt  == l_r_b_t(p.rect)
                 cs    == QuadCorners(lrbt[1], lrbt[2], lrbt[3], lrbt[4])
                 ts    == QuadCorners(uv[1], uv[2], uv[3], uv[4])
                 v(c, t_) == Vertex(MODE_IMAGE,
                                    <<vx(c[1], display_), vy(c[2], display_)>>, t_, color)
             IN  [f EXCEPT !.vertices = @ \o [i \in 1..6 |-> v(cs[i], ts[i])]]

\* match kind { .. }
fill_kind(f, p, display_, image_map_) ==
    CASE p.kind = "Rectangle"            -> fill_rectangle(f, p, display_)
      [] p.kind = "TrianglesSingleColor" -> fill_triangles_single(f, p, display_)
      [] p.kind = "TrianglesMultiColor"  -> fill_triangles_multi(f, p, display_)
      [] p.kind = "Text"                 -> fill_text(f, p, display_)
      [] p.kind = "Image"                -> fill_image(f, p, display_, image_map_)
      [] p.kind = "Other"                -> f

\* The loop body with the kind examined first: an Other primitive and an
\* empty batch of triangles leave the loop body before the clip comparison.
fill_primitive_kind_first(f, p, display_, image_map_) ==
    IF \/ p.kind = "Other"
       \/ /\ p.kind \in {"TrianglesSingleColor", "TrianglesMultiColor"}
          /\ p.triangles = <<>>
    THEN f
    ELSE fill_kind(scizzor_check(f, p, display_), p, display_, image_map_)

\* One turn of the loop `while let Some(primitive) = primitives.next_primitive()`.
fill_primitive(f, p, display_, image_map_) ==
    fill_kind(scizzor_check(f, p, display_), p, display_, image_map_)

\* fill_end without the final command.
fill_end_nothing(f) == f

\* "Enter the final command."
fill_end(f) ==
    [f EXCEPT !.commands = Append(@, CloseCommand(f.current_state, Len(f.vertices)))]

\* The loop of fill over the primitives prims, from the FillState f; a panic
\* ends it.
RECURSIVE fill_loop(_, _, _, _)
fill_loop(f, prims, display_, image_map_) ==
    IF prims = <<>> \/ f.panicked THEN f
    ELSE fill_loop(fill_primitive(f, Head(prims), display_, image_map_),
                   Tail(prims), display_, image_map_)

\* Renderer::fill as a whole, on a renderer whose glyph cache is glyph_cache_.
fill(glyph_cache_, display_, prims, image_map_) ==
    LET f == fill_loop(fill_begin(glyph_cache_, display_), prims,
                       display_, image_map_)
    IN  IF f.panicked THEN f ELSE fill_end(f)

(***************************************************************************)
(* Renderer::draw.  The GL context is seen through the calls draw makes on *)
(* it: a call is a record of the function and its arguments, an argument a *)
(* call does not have holding 0, "" or an empty value.  An object name 0   *)
(* is None (nothing bound).                                                *)
(***************************************************************************)
NUM_VERTICES_IN_TRIANGLE == 3

\* The GL objects of the Renderer: self.program.program, self.vbo, self.vao
\* and the texture of the glyph cache.
program_program == 1
vbo == 2
vao == 3
glyph_texture == 100

NoRect == [left |-> 0, bottom |-> 0, width |-> 0, height |-> 0]

GlCall(op, cap, name, rect, data, count) ==
    [op |-> op, cap |-> cap, name |-> name, rect |-> rect, data |-> data,
     count |-> count]

gl_disable(cap)            == GlCall("disable", cap, 0, NoRect, <<>>, 0)
gl_enable(cap)             == GlCall("enable", cap, 0, NoRect, <<>>, 0)
gl_use_program(name)       == GlCall("use_program", "", name, NoRect, <<>>, 0)
gl_bind_buffer(name)       == GlCall("bind_buffer", "", name, NoRect, <<>>, 0)
gl_bind_vertex_array(name) == GlCall("bind_vertex_array", "", name, NoRect, <<>>, 0)
gl_bind_texture(name)      == GlCall("bind_texture", "", name, NoRect, <<>>, 0)
gl_scissor(rect)           == GlCall("scissor", "", 0, rect, <<>>, 0)
gl_buffer_data(data)       == GlCall("buffer_data", "", 0, NoRect, data, 0)
gl_draw_arrays(count)      == GlCall("draw_arrays", "", 0, NoRect, <<>>, count)

\* verify!() follows every call of draw but gl.scissor.
Verified(call) == call.op # "scissor"

\* Commands::next: the slice &vertices[range] of a Plain or Image command.
command_slice(cmd, vertices_) == SubSeq(vertices_, cmd.start + 1, cmd.end)

\* The body of draw's loop with a Scizzor arm that sets the rect and leaves
\* out gl.enable(glow::SCISSOR_TEST).
draw_command_scissor_only(cmd, vertices_, image_map_) ==
    IF cmd.tag = "Scizzor"
    THEN << gl_scissor(cmd.rect) >>
    ELSE LET slice == command_slice(cmd, vertices_)
             texture == IF cmd.tag = "Plain" THEN glyph_texture
                        ELSE IF cmd.image_id \in DOMAIN image_map_
                             THEN image_map_[cmd.image_id].texture
                             ELSE 0
         IN  IF Len(slice) >= NUM_VERTICES_IN_TRIANGLE
             THEN << gl_bind_texture(texture), gl_buffer_data(slice),
                     gl_draw_arrays(Len(slice)) >>
             ELSE <<>>

\* The body of draw's loop without the test of slice.len().
draw_command_no_skip(cmd, vertices_, image_map_) ==
    IF cmd.tag = "Scizzor"
    THEN << gl_enable("SCISSOR_TEST"), gl_scissor(cmd.rect) >>
    ELSE LET slice == command_slice(cmd, vertices_)
             texture == IF cmd.tag = "Plain" THEN glyph_texture
                        ELSE IF cmd.image_id \in DOMAIN image_map_
                             THEN image_map_[cmd.image_id].texture
                             ELSE 0
         IN  << gl_bind_texture(texture), gl_buffer_data(slice),
                gl_draw_arrays(Len(slice)) >>

\* The body of draw's loop binding the glyph texture for every command.
draw_command_glyph_texture(cmd, vertices_, image_map_) ==
    IF cmd.tag = "Scizzor"
    THEN << gl_enable("SCISSOR_TEST"), gl_scissor(cmd.rect) >>
    ELSE LET slice == command_slice(cmd, vertices_)
         IN  IF Len(slice) >= NUM_VERTICES_IN_TRIANGLE
             THEN << gl_bind_texture(glyph_texture), gl_buffer_data(slice),
                     gl_draw_arrays(Len(slice)) >>
             ELSE <<>>

\* The body of draw's loop for one command.
draw_command(cmd, vertices_, image_map_) ==
    IF cmd.tag = "Scizzor"
    THEN << gl_enable("SCISSOR_TEST"), gl_scissor(cmd.rect) >>
    ELSE LET slice == command_slice(cmd, vertices_)
             texture == IF cmd.tag = "Plain" THEN glyph_texture
                        ELSE IF cmd.image_id \in DOMAIN image_map_
                             THEN image_map_[cmd.image_id].texture
                             ELSE 0
         IN  IF Len(slice) >= NUM_VERTICES_IN_TRIANGLE
             THEN << gl_bind_texture(texture), gl_buffer_data(slice),
                     gl_draw_arrays(Len(slice)) >>
             ELSE <<>>

\* draw's loop taking the commands last to first.
RECURSIVE draw_loop_reversed(_, _, _)
draw_loop_reversed(commands_, vertices_, image_map_) ==
    IF commands_ = <<>> THEN <<>>
    ELSE draw_loop_reversed(Tail(commands_), vertices_, image_map_)
            \o draw_command(Head(commands_), vertices_, image_map_)

\* draw's loop over self.commands().
RECURSIVE draw_loop(_, _, _)
draw_loop(commands_, vertices_, image_map_) ==
    IF commands_ = <<>> THEN <<>>
    ELSE draw_command(Head(commands_), vertices_, image_map_)
            \o draw_loop(Tail(commands_), vertices_, image_map_)

\* A draw without its two gl.disable(glow::SCISSOR_TEST).
draw_keeps_scissor(commands_, vertices_, image_map_) ==
    << gl_use_program(program_program), gl_bind_buffer(vbo),
       gl_bind_vertex_array(vao) >>
    \o draw_loop(commands_, vertices_, image_map_)
    \o << gl_bind_texture(0), gl_use_program(0), gl_bind_vertex_array(0),
          gl_bind_buffer(0) >>

\* The calls of a draw that no GL error interrupts.
draw(commands_, vertices_, image_map_) ==
    << gl_disable("SCISSOR_TEST"), gl_use_program(program_program),
       gl_bind_buffer(vbo), gl_bind_vertex_array(vao) >>
    \o draw_loop(commands_, vertices_, image_map_)
    \o << gl_bind_texture(0), gl_use_program(0), gl_bind_vertex_array(0),
          gl_bind_buffer(0), gl_disable("SCISSOR_TEST") >>

\* The calls after which gl.get_error() can make verify!() panic.
ErrorPoints(calls) == {k \in 1..Len(calls) : Verified(calls[k])}

(***************************************************************************)
(* Renderer::commands and the iterator Commands.  The iterator borrows the *)
(* command list and the vertex array of the Renderer and holds a cursor:   *)
(* pos commands have been yielded.  An item is None (the end), a Command,  *)
(* or a panic: the slice index &vertices[range] panics when the range is   *)
(* out of bounds.                                                          *)
(***************************************************************************)
\* enum Command
Command_Scizzor(rect) == [tag |-> "Scizzor", rect |-> rect]
Command_Draw(kind, image_id, slice) ==
    [tag |-> "Draw", draw |-> kind, image_id |-> image_id, slice |-> slice]

\* &vertices[range]: a slice, or a panic when start > end or end > len.
slice_index(vertices_, start, end) ==
    IF start > end \/ end > Len(vertices_)
    THEN [tag |-> "panic"]
    ELSE [tag |-> "slice", slice |-> SubSeq(vertices_, start + 1, end)]

\* Renderer::commands
Renderer_commands(commands_, vertices_) ==
    [commands |-> commands_, vertices |-> vertices_, pos |-> 0]

\* Commands::next with every Draw holding the whole vertex array.
Commands_next_whole(it) ==
    IF it.pos >= Len(it.commands)
    THEN [item |-> [tag |-> "None"], it |-> it]
    ELSE LET command == it.commands[it.pos + 1]
             after   == [it EXCEPT !.pos = @ + 1]
         IN  IF command.tag = "Scizzor"
             THEN [item |-> Command_Scizzor(command.rect), it |-> after]
             ELSE [item |-> Command_Draw(command.tag,
                                         IF command.tag = "Image"
                                         THEN command.image_id ELSE 0,
                                         it.vertices),
                   it |-> after]

\* Iterator::next for Commands: the item and the iterator after the call.
Commands_next(it) ==
    IF it.pos >= Len(it.commands)
    THEN [item |-> [tag |-> "None"], it |-> it]
    ELSE LET command == it.commands[it.pos + 1]
             after   == [it EXCEPT !.pos = @ + 1]
         IN  IF command.tag = "Scizzor"
             THEN [item |-> Command_Scizzor(command.rect), it |-> after]
             ELSE LET s == slice_index(it.vertices, command.start, command.end)
                  IN  IF s.tag = "panic"
                      THEN [item |-> s, it |-> after]
                      ELSE [item |-> Command_Draw(command.tag,
                                                  IF command.tag = "Image"
                                                  THEN command.image_id ELSE 0,
                                                  s.slice),
                            it |-> after]

\* The items a `for` loop takes from the iterator it: up to None or a panic,
\* the panic included.
RECURSIVE Commands_collect(_)
Commands_collect(it) ==
    LET r == Commands_next(it)
    IN  IF r.item.tag = "None" THEN <<>>
        ELSE IF r.item.tag = "panic" THEN << r.item >>
        ELSE << r.item >> \o Commands_collect(r.it)

(***************************************************************************)
(* Construction: program, glyph_cache_texture, GlyphCache::with_dimensions *)
(* and GlyphCache::new, Renderer::with_glyph_cache, Renderer::new and      *)
(* Renderer::with_glyph_cache_dimensions.  The GL context is given with    *)
(* the one call of the construction that fails on it ("none": no call      *)
(* fails).  A function either returns a Result, [tag |-> "Ok", value] or   *)
(* [tag |-> "Err", ..], or panics, [tag |-> "panic"].  The functions are   *)
(* declared to return Result<_, String>; none of them builds an Err.       *)
(***************************************************************************)
Faults ==
    {"none", "create_texture", "create_program", "create_vertex_shader",
     "compile_vertex_shader", "create_fragment_shader",
     "compile_fragment_shader", "link_program", "get_attrib_location",
     "create_buffer", "create_vertex_array"}

Ok(v) == [tag |-> "Ok", value |-> v]
Panic == [tag |-> "panic", value |-> <<>>]

\* fn program.  On a target other than wasm32 is_framebuffer_srgb is
\* asserted; every failing call panics (expect, unwrap, panic!).
program(fault, wasm32, is_framebuffer_srgb) ==
    LET vs == IF wasm32 THEN "VERTEX_SHADER_300_ES" ELSE "VERTEX_SHADER_140"
        fs == IF wasm32
              THEN IF is_framebuffer_srgb
                   THEN "FRAGMENT_SHADER_300_ES"
                   ELSE "FRAGMENT_SHADER_300_ES_LINEAR_TO_SRGB"
              ELSE "FRAGMENT_SHADER_140"
    IN  IF ~wasm32 /\ ~is_framebuffer_srgb THEN Panic
        ELSE IF fault \in {"create_program", "create_vertex_shader",
                           "compile_vertex_shader", "create_fragment_shader",
                           "compile_fragment_shader", "link_program",
                           "get_attrib_location"}
        THEN Panic
        ELSE Ok([program |-> program_program, vs |-> vs, fs |-> fs])

\* fn glyph_cache_texture: gl.create_texture().unwrap()
glyph_cache_texture(fault, width, height) ==
    IF fault = "create_texture" THEN Panic ELSE Ok(glyph_texture)

\* GlyphCache::with_dimensions
GlyphCache_with_dimensions(fault, width, height) ==
    LET texture == glyph_cache_texture(fault, width, height)
    IN  IF texture.tag # "Ok" THEN texture
        ELSE Ok([cache |-> <<>>, texture |-> texture.value,
                 width |-> width, height |-> height])

\* GlyphCache::new
GlyphCache_new(fault) == GlyphCache_with_dimensions(fault, 1200, 900)

\* Renderer::with_glyph_cache
Renderer_with_glyph_cache(fault, gc, wasm32, is_framebuffer_srgb) ==
    LET prog == program(fault, wasm32, is_framebuffer_srgb)
    IN  IF prog.tag # "Ok" THEN prog
        ELSE IF fault \in {"create_buffer", "create_vertex_array"} THEN Panic
        ELSE Ok([program |-> prog.value, vbo |-> vbo, vao |-> vao,
                 glyph_cache |-> gc, commands |-> <<>>, vertices |-> <<>>])

\* Renderer::new
Renderer_new(fault, wasm32, is_framebuffer_srgb) ==
    LET gc == GlyphCache_new(fault)
    IN  IF gc.tag # "Ok" THEN gc
        ELSE Renderer_with_glyph_cache(fault, gc.value, wasm32, is_framebuffer_srgb)

\* Renderer::with_glyph_cache_dimensions
Renderer_with_glyph_cache_dimensions(fault, width, height, wasm32, is_framebuffer_srgb) ==
    LET gc == GlyphCache_with_dimensions(fault, width, height)
    IN  IF gc.tag # "Ok" THEN gc
        ELSE Renderer_with_glyph_cache(fault, gc.value, wasm32, is_framebuffer_srgb)

(***************************************************************************)
(* The state machine.                                                      *)
(***************************************************************************)
VARIABLES
    pc,              \* "idle", "filling", "done" or "panicked"
    commands,        \* Renderer.commands
    vertices,        \* Renderer.vertices
    glyph_cache,     \* Renderer.glyph_cache: the slots of the cache
    current_state,   \* fill's local current_state
    current_scizzor, \* fill's local current_scizzor
    display,         \* the display metrics fill read
    image_map,       \* the image map fill was given
    stream,          \* the primitives the running fill has consumed so far
    gl_calls,        \* the GL calls of the last draw since the last fill
    draw_image_map,  \* the image map that draw was given
    construction,    \* the call that constructed the Renderer and its outcome
    target_arch,     \* "native" or "wasm32": the demo that runs
    event,           \* the event the last call of the event handler got
    control_flow,    \* *control_flow as the event loop sees it
    next_update,     \* native: next_update, an Option
    ui_update_needed,   \* native: ui_update_needed
    should_update_ui,   \* wasm: should_update_ui
    needs_next_update,  \* wasm: needs_next_update
    handler_calls    \* the calls the last call of the event handler made

vars == <<pc, commands, vertices, glyph_cache, current_state, current_scizzor,
          display, image_map, stream, gl_calls, draw_image_map, construction,
          target_arch, event, control_flow, next_update, ui_update_needed,
          should_update_ui, needs_next_update, handler_calls>>

\* The variables of the event loops.
loop_vars == <<target_arch, event, control_flow, next_update, ui_update_needed,
               should_update_ui, needs_next_update, handler_calls>>

\* The locals of a demo before event_loop.run: no event yet, control_flow
\* as winit creates it.
LoopInit ==
    /\ event = "none"
    /\ control_flow = "Poll"
    /\ next_update = <<>>
    /\ ui_update_needed = FALSE
    /\ should_update_ui = TRUE
    /\ needs_next_update = TRUE
    /\ handler_calls = <<>>

\* The FillState the variables hold.
Frame ==
    [commands |-> commands, vertices |-> vertices, glyph_cache |-> glyph_cache,
     current_state |-> current_state, current_scizzor |-> current_scizzor,
     panicked |-> pc = "panicked"]

\* The variables take the values of the FillState f.
SetFrame(f) ==
    /\ commands' = f.commands
    /\ vertices' = f.vertices
    /\ glyph_cache' = f.glyph_cache
    /\ current_state' = f.current_state
    /\ current_scizzor' = f.current_scizzor

\* What is recorded of a construction: the call, the failing GL call, the
\* tag of the outcome r and the dimensions of the glyph cache built.
Constructed(call, fault, r) ==
    [call |-> call, fault |-> fault, result |-> r.tag,
     width  |-> IF r.tag = "Ok" THEN r.value.glyph_cache.width ELSE 0,
     height |-> IF r.tag = "Ok" THEN r.value.glyph_cache.height ELSE 0]

\* No Renderer has been constructed.
NotConstructed ==
    [call |-> "", fault |-> "none", result |-> "", width |-> 0, height |-> 0]

\* Renderer::with_glyph_cache: both buffers empty, the glyph cache empty.
\* The Renderer is the one Renderer::new(&gl, true) returns on a context
\* on which no call fails.
Init ==
    /\ pc = "idle"
    /\ construction = Constructed("Renderer::new", "none",
                                  Renderer_new("none", FALSE, TRUE))
    /\ target_arch = "native"
    /\ LoopInit
    /\ commands = <<>>
    /\ vertices = <<>>
    /\ glyph_cache = <<>>
    /\ current_state = StatePlain(0)
    /\ display \in Displays
    /\ current_scizzor = DefaultScizzor(display)
    /\ image_map \in ImageMaps
    /\ stream = <<>>
    /\ gl_calls = <<>>
    /\ draw_image_map = <<>>

\* A call of fill that leaves out commands.clear() and vertices.clear().
BeginFill_no_clear(d, m) ==
    /\ pc \in {"idle", "done"}
    /\ pc' = "filling"
    /\ display' = d
    /\ image_map' = m
    /\ stream' = <<>>
    /\ gl_calls' = <<>>
    /\ draw_image_map' = <<>>
    /\ UNCHANGED <<construction, loop_vars>>
    /\ SetFrame([fill_begin(glyph_cache, d) EXCEPT !.commands = commands,
                                                   !.vertices = vertices])

\* A call of fill: the buffers are cleared and the display metrics read.
BeginFill(d, m) ==
    /\ pc \in {"idle", "done"}
    /\ pc' = "filling"
    /\ display' = d
    /\ image_map' = m
    /\ stream' = <<>>
    /\ gl_calls' = <<>>
    /\ draw_image_map' = <<>>
    /\ UNCHANGED <<construction, loop_vars>>
    /\ SetFrame(fill_begin(glyph_cache, d))

\* The stream yields the primitive p and the loop body runs on it.
NextPrimitive(p) ==
    /\ pc = "filling"
    /\ Len(stream) < MaxPrims
    /\ LET f == fill_primitive(Frame, p, display, image_map)
       IN  /\ SetFrame(f)
           /\ pc' = IF f.panicked THEN "panicked" ELSE "filling"
    /\ stream' = Append(stream, p)
    /\ UNCHANGED <<display, image_map, gl_calls, draw_image_map, construction,
                   loop_vars>>

\* The stream ends: the final command is entered and fill returns.
EndFill ==
    /\ pc = "filling"
    /\ SetFrame(fill_end(Frame))
    /\ pc' = "done"
    /\ UNCHANGED <<display, image_map, stream, gl_calls, draw_image_map,
                   construction, loop_vars>>

Next ==
    \/ \E d \in Displays, m \in ImageMaps : BeginFill(d, m)
    \/ \E p \in Primitives : NextPrimitive(p)
    \/ EndFill

Spec == Init /\ [][Next]_vars

(***************************************************************************)
(* Frames that are drawn.  draw takes &self, so it runs between fills, on  *)
(* a renderer no fill has touched yet too; it is given an image map of its *)
(* own, which need not be the one fill was given.                          *)
(***************************************************************************)
\* The image maps draw is given: the ones of fill and one without id 2.
DrawImageMaps == ImageMaps \cup { [id \in {1} |-> Texture(1)] }

\* The primitives of the frames that are drawn.
DrawPrimitives ==
    {PRectangle(ClipFull), PRectangle(ClipSmall),
     PText(ClipFull, TextShort),
     PImage(ClipFull, 1, <<>>, <<>>),
     PImage(ClipFull, 2, <<GRAY>>, <<MkRect(2, 6, 0, 2)>>),
     PImage(ClipFull, 3, <<>>, <<>>)}

\* A draw that consumes the vertex array.
Draw_drains(m, e) ==
    /\ pc \in {"idle", "done"}
    /\ LET calls == draw(commands, vertices, m)
       IN  /\ e \in {0} \cup ErrorPoints(calls)
           /\ gl_calls' = IF e = 0 THEN calls ELSE SubSeq(calls, 1, e)
           /\ pc' = IF e = 0 THEN pc ELSE "panicked"
    /\ draw_image_map' = m
    /\ vertices' = <<>>
    /\ UNCHANGED <<commands, glyph_cache, current_state,
                   current_scizzor, display, image_map, stream, construction,
                   loop_vars>>

\* A call of draw with the image map m.  e = 0: no verify!() sees a GL
\* error and draw returns Ok(()); e > 0: the verify!() after the e-th call
\* sees one and panics.
Draw(m, e) ==
    /\ pc \in {"idle", "done"}
    /\ LET calls == draw(commands, vertices, m)
       IN  /\ e \in {0} \cup ErrorPoints(calls)
           /\ gl_calls' = IF e = 0 THEN calls ELSE SubSeq(calls, 1, e)
           /\ pc' = IF e = 0 THEN pc ELSE "panicked"
    /\ draw_image_map' = m
    /\ UNCHANGED <<commands, vertices, glyph_cache, current_state,
                   current_scizzor, display, image_map, stream, construction,
                   loop_vars>>

NextDraw ==
    \/ \E d \in Displays, m \in ImageMaps : BeginFill(d, m)
    \/ \E p \in DrawPrimitives : NextPrimitive(p)
    \/ EndFill
    \/ \E m \in DrawImageMaps :
          \E e \in {0} \cup ErrorPoints(draw(commands, vertices, m)) : Draw(m, e)

SpecDraw == Init /\ [][NextDraw]_vars

(***************************************************************************)
(* The life of a Renderer from its construction.  The construction is one  *)
(* call of Renderer::new or Renderer::with_glyph_cache_dimensions on a GL  *)
(* context one of whose calls may fail; the frames follow when it returned *)
(* a Renderer.                                                             *)
(***************************************************************************)
\* The dimensions with_glyph_cache_dimensions is called with.
CacheDimensions == { <<8, 4>>, <<1200, 900>> }

\* The primitives of the frames that follow a construction.
NewPrimitives == {PRectangle(ClipSmall), PText(ClipFull, TextShort)}

InitNew ==
    /\ pc = "unbuilt"
    /\ construction = NotConstructed
    /\ target_arch = "native"
    /\ LoopInit
    /\ commands = <<>>
    /\ vertices = <<>>
    /\ glyph_cache = <<>>
    /\ current_state = StatePlain(0)
    /\ display \in Displays
    /\ current_scizzor = DefaultScizzor(display)
    /\ image_map \in ImageMaps
    /\ stream = <<>>
    /\ gl_calls = <<>>
    /\ draw_image_map = <<>>

\* The outcome r of the construction call: the Renderer is there when r is
\* Ok, the caller holds an Err when r is Err, the thread has panicked else.
Construct(call, fault, r) ==
    /\ pc = "unbuilt"
    /\ pc' = CASE r.tag = "Ok"  -> "idle"
               [] r.tag = "Err" -> "failed"
               [] OTHER         -> "panicked"
    /\ construction' = Constructed(call, fault, r)
    /\ commands' = IF r.tag = "Ok" THEN r.value.commands ELSE <<>>
    /\ vertices' = IF r.tag = "Ok" THEN r.value.vertices ELSE <<>>
    /\ glyph_cache' = IF r.tag = "Ok" THEN r.value.glyph_cache.cache ELSE <<>>
    /\ UNCHANGED <<current_state, current_scizzor, display, image_map, stream,
                   gl_calls, draw_image_map, loop_vars>>

\* Renderer::new(gl, is_framebuffer_srgb)
New(fault, wasm32, is_framebuffer_srgb) ==
    Construct("Renderer::new", fault,
              Renderer_new(fault, wasm32, is_framebuffer_srgb))

\* Renderer::with_glyph_cache_dimensions(gl, width, height, is_framebuffer_srgb)
WithGlyphCacheDimensions(fault, width, height, wasm32, is_framebuffer_srgb) ==
    Construct("Renderer::with_glyph_cache_dimensions", fault,
              Renderer_with_glyph_cache_dimensions(fault, width, height, wasm32,
                                                   is_framebuffer_srgb))

NextNew ==
    \/ \E fault \in Faults, wasm32 \in BOOLEAN, srgb \in BOOLEAN :
          New(fault, wasm32, srgb)
    \/ \E fault \in Faults, dim \in CacheDimensions,
          wasm32 \in BOOLEAN, srgb \in BOOLEAN :
          WithGlyphCacheDimensions(fault, dim[1], dim[2], wasm32, srgb)
    \/ \E d \in Displays, m \in ImageMaps : BeginFill(d, m)
    \/ \E p \in NewPrimitives : NextPrimitive(p)
    \/ EndFill

SpecNew == InitNew /\ [][NextNew]_vars

(***************************************************************************)
(* The event loops of the two demos: the closure given to event_loop.run   *)
(* in bin/conrod_floatwin_demo_glow_native.rs and in wasm.rs.  One call of *)
(* the closure is one step.  What conrod makes of the events is outside    *)
(* this code: ui.draw_if_changed() returns None or Some(primitives) as an  *)
(* input of the step, and so are the window metrics fill reads and the     *)
(* point at which the GL context reports an error.                         *)
(***************************************************************************)
Events ==
    {"NewEvents(Init)", "NewEvents(ResumeTimeReached)", "NewEvents(WaitCancelled)",
     "CloseRequested", "KeyboardInput(Escape)", "KeyboardInput(Escape, Released)",
     "KeyboardInput(F11)",
     "ScaleFactorChanged", "Resized", "MouseInput", "RedrawRequested",
     "MainEventsCleared", "RedrawEventsCleared"}

\* The events of the first match arm: control flow becomes Exit.
\* The pattern names the virtual keycode only, so the key may go down or up.
ExitEvents ==
    {"CloseRequested", "KeyboardInput(Escape)", "KeyboardInput(Escape, Released)"}

\* convert_event returns Some for these.
ConvertedEvents == {"KeyboardInput(F11)", "Resized", "MouseInput"}

\* The primitive streams ui.draw_if_changed() yields.
UiStreams ==
    { <<PRectangle(ClipFull)>>,
      <<PRectangle(ClipSmall), PImage(ClipFull, 1, <<>>, <<>>),
        PText(ClipFull, TextShort)>>,
      <<PText(ClipFull, TextLong)>> }

\* What ui.draw_if_changed() returns: None or Some(primitives).
UiOutcomes == { <<>> } \cup { <<prims>> : prims \in UiStreams }

\* The calls of the handler before the match on the event that sets the UI.
handler_head(target, ev) ==
    (IF ev = "KeyboardInput(F11)" THEN <<"window.set_fullscreen">> ELSE <<>>)
    \o (IF ev = "Resized" /\ target = "native" THEN <<"context.resize">> ELSE <<>>)
    \o (IF ev = "RedrawRequested" THEN <<"ui.needs_redraw">> ELSE <<>>)
    \o (IF ev \in ConvertedEvents THEN <<"ui.handle_event">> ELSE <<>>)

\* The GL calls of the handler between fill and draw; on wasm a verify!()
\* follows each of them.
frame_setup(target) ==
    IF target = "wasm32"
    THEN <<"gl.clear_color", "gl.clear", "gl.enable", "gl.blend_func_separate",
           "gl.viewport">>
    ELSE <<"gl.clear", "gl.enable", "gl.viewport">>

\* The points of a frame at which a failure of the context makes the
\* handler panic, counted along the GL calls of the frame: the verify!()s of
\* the handler (wasm), those of draw, and swap_buffers().unwrap() (native).
\* There is none when fill has panicked.
frame_faults(target, f, log) ==
    LET ns == Len(frame_setup(target))
    IN  IF f.panicked THEN {}
        ELSE (IF target = "wasm32" THEN 1..ns ELSE {})
             \cup {ns + k : k \in ErrorPoints(log)}
             \cup (IF target = "native" THEN {ns + Len(log) + 1} ELSE {})

\* A handler that calls draw whether or not the UI has changed.
ui_frame_draw_always(target, ui_out, f, log, e) ==
    IF ui_out = <<>>
    THEN [calls |-> <<"ui.draw_if_changed -> None", "renderer.draw">>,
          changed |-> FALSE, panicked |-> FALSE, filled |-> FALSE,
          drawn |-> TRUE, gl |-> log]
    ELSE [calls |-> <<"ui.draw_if_changed -> Some", "renderer.fill">>
                    \o (IF f.panicked THEN <<>>
                        ELSE frame_setup(target) \o <<"renderer.draw">>),
          changed |-> TRUE, panicked |-> f.panicked, filled |-> TRUE,
          drawn |-> ~f.panicked, gl |-> IF f.panicked THEN <<>> ELSE log]

\* "Draw the `Ui` if it has changed": the handler from ui.draw_if_changed()
\* on, which returns ui_out; f is what fill leaves of the primitives and log
\* the GL calls of a whole draw of that; e is the point of the failure of
\* the context, 0 for none.  calls: the calls made; changed: the UI yielded
\* primitives; filled, drawn: fill, draw was called; gl: the GL calls draw
\* made; panicked: the handler has panicked (in fill, verify!() or unwrap).
ui_frame(target, ui_out, f, log, e) ==
    LET setup == frame_setup(target)
        ns    == Len(setup)
        head  == <<"ui.draw_if_changed -> Some", "renderer.fill">>
        r     == [calls |-> head, changed |-> TRUE, panicked |-> TRUE,
                  filled |-> TRUE, drawn |-> FALSE, gl |-> <<>>]
    IN  IF ui_out = <<>>
        THEN [calls |-> <<"ui.draw_if_changed -> None">>, changed |-> FALSE,
              panicked |-> FALSE, filled |-> FALSE, drawn |-> FALSE, gl |-> <<>>]
        ELSE IF f.panicked THEN r
        ELSE IF e = 0
        THEN [r EXCEPT !.calls = head \o setup \o <<"renderer.draw">>
                                 \o (IF target = "native"
                                     THEN <<"context.swap_buffers">> ELSE <<>>),
                       !.panicked = FALSE, !.drawn = TRUE, !.gl = log]
        ELSE IF e <= ns
        THEN [r EXCEPT !.calls = head \o SubSeq(setup, 1, e)]
        ELSE IF e <= ns + Len(log)
        THEN [r EXCEPT !.calls = head \o setup \o <<"renderer.draw">>,
                       !.drawn = TRUE, !.gl = SubSeq(log, 1, e - ns)]
        ELSE [r EXCEPT !.calls = head \o setup
                                 \o <<"renderer.draw", "context.swap_buffers">>,
                       !.drawn = TRUE, !.gl = log]

\* The renderer after the frame fr of a handler, f being what fill left.
SetRenderer(fr, f, ui_out) ==
    IF fr.filled
    THEN /\ SetFrame(f)
         /\ stream' = ui_out[1]
         /\ gl_calls' = fr.gl
         /\ draw_image_map' = IF fr.drawn THEN image_map ELSE <<>>
         /\ pc' = IF fr.panicked THEN "panicked" ELSE "done"
    ELSE /\ gl_calls' = IF fr.drawn THEN fr.gl ELSE gl_calls
         /\ draw_image_map' = IF fr.drawn THEN image_map ELSE draw_image_map
         /\ UNCHANGED <<pc, commands, vertices, glyph_cache, current_state,
                        current_scizzor, stream>>

\* The renderer is not used.
RendererUnchanged ==
    UNCHANGED <<pc, commands, vertices, glyph_cache, current_state,
                current_scizzor, stream, gl_calls, draw_image_map>>

\* What ui.draw_if_changed() returns is read when the handler sets the UI.
UiInputs(sets_ui) == IF sets_ui THEN UiOutcomes ELSE { <<>> }

\* The primitives of ui_out, none for None.
PrimitivesOf(ui_out) == IF ui_out = <<>> THEN <<>> ELSE ui_out[1]

\* The window metrics after the event ev: a Resized or ScaleFactorChanged
\* event tells of new ones, d.
WindowMetrics(ev, d) ==
    IF ev \in {"Resized", "ScaleFactorChanged"} THEN display' = d
                                                 ELSE display' = display

\* A handler that keeps ui_update_needed only for the event at hand.
native_update_needed_forgets(ev) ==
    \/ ev = "RedrawRequested"
    \/ ev \in ConvertedEvents

\* native: ui_update_needed after the event ev has been looked at.
native_update_needed(ev) ==
    \/ ui_update_needed
    \/ ev = "RedrawRequested"
    \/ ev \in ConvertedEvents

\* A handler that sets the UI on MainEventsCleared whenever an update is
\* needed, scheduled or not.
native_sets_ui_unthrottled(ev) ==
    \/ ev \in {"NewEvents(Init)", "NewEvents(ResumeTimeReached)"}
    \/ ev = "MainEventsCleared" /\ native_update_needed(ev)

\* native: the handler sets the UI on the event ev, which is not an exit.
native_sets_ui(ev) ==
    LET should_set_ui_on_main_events_cleared ==
            next_update = <<>> /\ native_update_needed(ev)
    IN  \/ ev \in {"NewEvents(Init)", "NewEvents(ResumeTimeReached)"}
        \/ ev = "MainEventsCleared" /\ should_set_ui_on_main_events_cleared

\* wasm: should_update_ui after the event ev has been looked at.
wasm_should_update(ev) ==
    \/ should_update_ui
    \/ ev = "RedrawRequested"
    \/ ev \in ConvertedEvents

\* A handler that sets the UI only while the loop is polling.
wasm_sets_ui_when_polling(ev) ==
    ev = "MainEventsCleared" /\ needs_next_update

\* wasm: the handler sets the UI on the event ev, which is not an exit.
wasm_sets_ui(ev) ==
    ev = "MainEventsCleared" /\ (wasm_should_update(ev) \/ needs_next_update)

\* A call of the handler of the demo target with the event ev: the first
\* event of a loop is NewEvents(Init), and no event follows Exit.
HandlerCall(target, ev) ==
    /\ target_arch = target
    /\ pc \in {"idle", "done"}
    /\ control_flow # "Exit"
    /\ (event = "none") <=> (ev = "NewEvents(Init)")
    /\ event' = ev
    /\ UNCHANGED <<image_map, construction, target_arch>>

\* A handler that sets Exit and goes on to the rest of the closure: the key
\* event is converted and given to the UI, and control flow is set again.
HandlerExit_goes_on(ev) ==
    /\ ev \in ExitEvents
    /\ control_flow' = IF target_arch = "native"
                       THEN (IF next_update # <<>> THEN "WaitUntil" ELSE "Wait")
                       ELSE (IF needs_next_update THEN "Poll" ELSE "Wait")
    /\ handler_calls' = IF ev = "CloseRequested" THEN <<>>
                                                 ELSE <<"ui.handle_event">>
    /\ ui_update_needed' = (ui_update_needed
                              \/ (target_arch = "native" /\ ev # "CloseRequested"))
    /\ should_update_ui' = (should_update_ui
                              \/ (target_arch = "wasm32" /\ ev # "CloseRequested"))
    /\ RendererUnchanged
    /\ UNCHANGED <<display, next_update, needs_next_update>>

\* The handler on an event of the first match arm: Exit, and return.
HandlerExit(ev) ==
    /\ ev \in ExitEvents
    /\ control_flow' = "Exit"
    /\ handler_calls' = <<>>
    /\ RendererUnchanged
    /\ UNCHANGED <<display, next_update, ui_update_needed, should_update_ui,
                   needs_next_update>>

\* The handler of the native demo on the event ev.
NativeHandler(ev, ui_out, d) ==
    /\ HandlerCall("native", ev)
    /\ \/ HandlerExit(ev)
       \/ /\ ev \notin ExitEvents
          /\ WindowMetrics(ev, d)
          /\ UNCHANGED <<should_update_ui, needs_next_update>>
          /\ IF native_sets_ui(ev)
             THEN \E f \in {fill(glyph_cache, display, PrimitivesOf(ui_out), image_map)} :
                  \E log \in {draw(f.commands, f.vertices, image_map)} :
                  \E e \in {0} \cup frame_faults("native", f, log) :
                  \E fr \in {ui_frame("native", ui_out, f, log, e)} :
                      /\ ui_out = <<>> => e = 0
                      /\ ui_update_needed' = FALSE
                      /\ next_update' = IF fr.changed THEN <<"now + sixteen_ms">>
                                                      ELSE <<>>
                      /\ handler_calls' = handler_head("native", ev)
                            \o <<"set_widgets", "window.set_cursor_icon">>
                            \o fr.calls
                      /\ SetRenderer(fr, f, ui_out)
                      /\ control_flow' =
                            IF fr.panicked THEN control_flow
                            ELSE IF fr.changed THEN "WaitUntil" ELSE "Wait"
             ELSE /\ ui_update_needed' = native_update_needed(ev)
                  /\ handler_calls' = handler_head("native", ev)
                  /\ control_flow' = IF next_update # <<>> THEN "WaitUntil"
                                                           ELSE "Wait"
                  /\ RendererUnchanged
                  /\ UNCHANGED next_update

\* The handler of the wasm demo on the event ev.
WasmHandler(ev, ui_out, d) ==
    /\ HandlerCall("wasm32", ev)
    /\ \/ HandlerExit(ev)
       \/ /\ ev \notin ExitEvents
          /\ WindowMetrics(ev, d)
          /\ UNCHANGED <<next_update, ui_update_needed>>
          /\ IF wasm_sets_ui(ev)
             THEN \E f \in {fill(glyph_cache, display, PrimitivesOf(ui_out), image_map)} :
                  \E log \in {draw(f.commands, f.vertices, image_map)} :
                  \E e \in {0} \cup frame_faults("wasm32", f, log) :
                  \E fr \in {ui_frame("wasm32", ui_out, f, log, e)} :
                      /\ ui_out = <<>> => e = 0
                      /\ should_update_ui' = FALSE
                      /\ needs_next_update' = fr.changed
                      /\ handler_calls' = handler_head("wasm32", ev)
                            \o <<"set_widgets", "window.set_cursor_icon">>
                            \o fr.calls
                      /\ SetRenderer(fr, f, ui_out)
                      /\ control_flow' =
                            IF fr.panicked THEN control_flow
                            ELSE IF fr.changed THEN "Poll" ELSE "Wait"
             ELSE /\ should_update_ui' = wasm_should_update(ev)
                  /\ handler_calls' = handler_head("wasm32", ev)
                  /\ control_flow' = IF needs_next_update THEN "Poll" ELSE "Wait"
                  /\ RendererUnchanged
                  /\ UNCHANGED needs_next_update

\* The demos after their setup: the Renderer is the one Renderer::new
\* returned (is_framebuffer_srgb is true in the native demo, false in wasm).
InitLoop ==
    /\ target_arch \in {"native", "wasm32"}
    /\ pc = "idle"
    /\ construction = Constructed("Renderer::new", "none",
                                  Renderer_new("none", target_arch = "wasm32",
                                               target_arch = "native"))
    /\ commands = <<>>
    /\ vertices = <<>>
    /\ glyph_cache = <<>>
    /\ current_state = StatePlain(0)
    /\ display \in Displays
    /\ current_scizzor = DefaultScizzor(display)
    /\ image_map \in ImageMaps
    /\ stream = <<>>
    /\ gl_calls = <<>>
    /\ draw_image_map = <<>>
    /\ LoopInit

\* The new window metrics come with the two events that tell of them.
MetricInputs(ev) ==
    IF ev \in {"Resized", "ScaleFactorChanged"} THEN Displays ELSE {display}

NextLoop ==
    \/ \E ev \in Events : \E ui_out \in UiInputs(native_sets_ui(ev)) :
          \E d \in MetricInputs(ev) : NativeHandler(ev, ui_out, d)
    \/ \E ev \in Events : \E ui_out \in UiInputs(wasm_sets_ui(ev)) :
          \E d \in MetricInputs(ev) : WasmHandler(ev, ui_out, d)

SpecLoop == InitLoop /\ [][NextLoop]_vars

\* winit's loop on native: MainEventsCleared is emitted after every batch of
\* events, and NewEvents(ResumeTimeReached) once the deadline of a
\* ControlFlow::WaitUntil has passed (sixteen_ms after the UI was set).
MainEventsClearedDelivered ==
    \E ui_out \in UiInputs(native_sets_ui("MainEventsCleared")) :
        NativeHandler("MainEventsCleared", ui_out, display)

ResumeTimeReachedDelivered ==
    /\ control_flow = "WaitUntil"
    /\ \E ui_out \in UiInputs(native_sets_ui("NewEvents(ResumeTimeReached)")) :
          NativeHandler("NewEvents(ResumeTimeReached)", ui_out, display)

SpecLoopFair ==
    /\ InitLoop
    /\ [][NextLoop]_vars
    /\ WF_vars(MainEventsClearedDelivered)
    /\ WF_vars(ResumeTimeReachedDelivered)

(***************************************************************************)
(* Frames of a window of 800x600 pixels at scale factor 1.                 *)
(***************************************************************************)
Window800x600 == [w |-> 800, h |-> 600, dpi |-> 1]

\* The rect of the whole window, in half units: 800x600 about the centre.
WindowRect == MkRect(-800, 800, -600, 600)

\* A Rectangle { color: red } over the whole window, a Rectangle and an
\* Image in its right half, a Rectangle in its upper left quarter, and a
\* primitive clipped to its left half.
WindowPrimitives ==
    { Prim("Rectangle", WindowRect, WindowRect, RED, <<>>, <<>>, 0, <<>>),
      Prim("Rectangle", WindowRect, MkRect(0, 800, -600, 600), GRAY, <<>>, <<>>,
           0, <<>>),
      Prim("Image", WindowRect, MkRect(0, 800, -600, 600), <<>>, <<>>, <<>>,
           1, <<>>),
      Prim("Rectangle", WindowRect, MkRect(-800, 0, 0, 600), GRAY, <<>>, <<>>,
           0, <<>>),
      Prim("Other", MkRect(-800, 0, -600, 600), WindowRect, <<>>, <<>>, <<>>,
           0, <<>>) }

InitWindow ==
    /\ pc = "idle"
    /\ construction = Constructed("Renderer::new", "none",
                                  Renderer_new("none", FALSE, TRUE))
    /\ target_arch = "native"
    /\ LoopInit
    /\ commands = <<>>
    /\ vertices = <<>>
    /\ glyph_cache = <<>>
    /\ current_state = StatePlain(0)
    /\ display = Window800x600
    /\ current_scizzor = DefaultScizzor(display)
    /\ image_map \in ImageMaps
    /\ stream = <<>>
    /\ gl_calls = <<>>
    /\ draw_image_map = <<>>

NextWindow ==
    \/ \E m \in ImageMaps : BeginFill(Window800x600, m)
    \/ \E p \in WindowPrimitives : NextPrimitive(p)
    \/ EndFill

SpecWindow == InitWindow /\ [][NextWindow]_vars

(***************************************************************************)
(* Vocabulary of the properties.                                           *)
(***************************************************************************)
IsDraw(c) == c.tag \in {"Plain", "Image"}

\* The Plain/Image commands of a command list, in order.
DrawCommands(cmds) == SelectSeq(cmds, IsDraw)

\* How many Scizzor commands a command list holds.
ScizzorCount(cmds) == Len(SelectSeq(cmds, LAMBDA c : c.tag = "Scizzor"))

HasScizzor(cmds) == ScizzorCount(cmds) > 0

\* This step is one turn of fill's loop; Prim_ is the primitive it consumed.
LoopTurn == pc = "filling" /\ Len(stream') = Len(stream) + 1

Prim_ == stream'[Len(stream')]

\* The converted clip rect of the primitive of this turn.
NewScizzor == rect_to_gl_rect(Prim_.scizzor, display)

\* The commands this turn appended.
Appended == SubSeq(commands', Len(commands) + 1, Len(commands'))

(***************************************************************************)
(* C1.  After fill, the vertex ranges of the Plain/Image commands, in      *)
(* command order, tile the vertex array: the first starts at 0, each later *)
(* one starts where the one before it ended, the last ends at              *)
(* vertices.len().                                                         *)
(***************************************************************************)
C1_RangesTileVertices ==
    pc = "done" =>
        LET d == DrawCommands(commands)
        IN  /\ Len(d) >= 1
            /\ d[1].start = 0
            /\ \A i \in 2..Len(d) : d[i].start = d[i - 1].end
            /\ \A i \in 1..Len(d) : d[i].start <= d[i].end
            /\ d[Len(d)].end = Len(vertices)

\* A finished frame of three non-empty ranges around a clip change.
C1_Witness ==
    /\ pc = "done"
    /\ HasScizzor(commands)
    /\ Cardinality({i \in 1..Len(commands) :
                      IsDraw(commands[i]) /\ commands[i].end > commands[i].start}) >= 3

(***************************************************************************)
(* C2.  After fill on any stream, the length of the vertex range of every  *)
(* Plain and every Image command is a multiple of 3.                       *)
(***************************************************************************)
C2_RangesAreTriangles ==
    pc = "done" =>
        \A i \in 1..Len(commands) :
            IsDraw(commands[i]) => (commands[i].end - commands[i].start) % 3 = 0

\* A finished frame whose stream held a Text with a glyph that got no
\* placement, an Image with an absent id and a clip change.
C2_Witness ==
    /\ pc = "done"
    /\ HasScizzor(commands)
    /\ \E i \in 1..Len(stream) : stream[i].kind = "Text" /\ InSeq(0, stream[i].text)
    /\ \E i \in 1..Len(stream) :
          stream[i].kind = "Image" /\ stream[i].image_id \notin DOMAIN image_map
    /\ Len(vertices) > 0

(***************************************************************************)
(* C3.  In one turn of fill's loop a Scizzor command is appended if and    *)
(* only if the converted clip rect of the primitive differs from the       *)
(* active rect; the active rect starts as the whole framebuffer and        *)
(* becomes the converted clip of each primitive that changes it.  The      *)
(* Scizzor command carries the converted clip and comes before every       *)
(* vertex of the primitive; for the first primitive of a frame it is the   *)
(* only Scizzor command of the list.                                       *)
(***************************************************************************)
C3_ScizzorIffClipDiffers ==
    [][ /\ (pc \in {"idle", "done"} /\ pc' = "filling")
            => current_scizzor' = [left |-> 0, bottom |-> 0,
                                   width |-> display'.w, height |-> display'.h]
        /\ LoopTurn =>
            IF NewScizzor # current_scizzor
            THEN /\ ScizzorCount(commands') = ScizzorCount(commands) + 1
                 /\ ScizzorCount(Appended) = 1
                 /\ \E k \in 1..Len(Appended) :
                      /\ Appended[k] = CmdScizzor(NewScizzor)
                      /\ \A j \in 1..Len(Appended) :
                            IsDraw(Appended[j]) /\ j < k
                                => Appended[j].end <= Len(vertices)
                 /\ current_scizzor' = NewScizzor
                 /\ current_state'.start >= Len(vertices)
            ELSE /\ ScizzorCount(commands') = ScizzorCount(commands)
                 /\ current_scizzor' = current_scizzor
      ]_vars

\* The first primitive of a frame came with a clip other than the whole
\* framebuffer and has pushed its vertices.
C3_Witness ==
    /\ pc = "filling"
    /\ Len(stream) = 1
    /\ rect_to_gl_rect(stream[1].scizzor, display) # DefaultScizzor(display)
    /\ commands = << CmdPlain(0, 0),
                     CmdScizzor(rect_to_gl_rect(stream[1].scizzor, display)) >>
    /\ Len(vertices) = 6

(***************************************************************************)
(* C4.  In the command list fill produces, no two consecutive commands are *)
(* both Image commands of the same image id.                               *)
(***************************************************************************)
C4_NoAdjacentSameImage ==
    pc = "done" =>
        \A i \in 1..(Len(commands) - 1) :
            ~ (/\ commands[i].tag = "Image"
               /\ commands[i + 1].tag = "Image"
               /\ commands[i].image_id = commands[i + 1].image_id)

\* Two Image primitives of the same id, with a primitive between them that
\* leaves the draw state alone, ended in one Image command.
C4_Witness ==
    /\ pc = "done"
    /\ Len(stream) = 3
    /\ stream[1].kind = "Image" /\ stream[3].kind = "Image"
    /\ stream[1].image_id = stream[3].image_id
    /\ stream[2].kind # "Image"
    /\ commands = << CmdPlain(0, 0), CmdImage(stream[1].image_id, 0, 12) >>

(***************************************************************************)
(* C5.  When the converted clip rect of a primitive differs from the       *)
(* active one, fill appends the command closing the open range (Plain or   *)
(* Image, as the draw state was), then Scizzor(new rect), and the draw     *)
(* state is Plain with an empty range from vertices.len(): an Image        *)
(* primitive that follows finds the Plain state and closes that empty      *)
(* range, so it is never merged into the Image range open before the clip  *)
(* change.                                                                 *)
(***************************************************************************)
C5_ClipChangeClosesAndResets ==
    [][ (LoopTurn /\ NewScizzor # current_scizzor) =>
            /\ Len(Appended) >= 2
            /\ Appended[1] = (IF current_state.tag = "Plain"
                              THEN CmdPlain(current_state.start, Len(vertices))
                              ELSE CmdImage(current_state.image_id,
                                            current_state.start, Len(vertices)))
            /\ Appended[2] = CmdScizzor(NewScizzor)
            /\ IF Prim_.kind = "Image"
               THEN /\ Appended = << Appended[1], Appended[2],
                                     CmdPlain(Len(vertices), Len(vertices)) >>
                    /\ current_state' = StateImage(Prim_.image_id, Len(vertices))
               ELSE /\ Len(Appended) = 2
                    /\ current_state' = StatePlain(Len(vertices))
      ]_vars

\* An Image primitive came in Image state of the same id with another clip.
C5_Witness ==
    /\ pc = "filling"
    /\ Len(stream) = 2
    /\ stream[1].kind = "Image" /\ stream[2].kind = "Image"
    /\ stream[1].image_id = stream[2].image_id
    /\ Len(commands) = 4
    /\ commands[2] = CmdImage(stream[1].image_id, 0, 6)
    /\ commands[3].tag = "Scizzor"
    /\ commands[4] = CmdPlain(6, 6)
    /\ current_state = StateImage(stream[1].image_id, 6)

(***************************************************************************)
(* C6.  After fill on any stream, the empty one too, the last command is a *)
(* Plain or Image command (never a Scizzor) whose range ends at            *)
(* vertices.len().                                                         *)
(***************************************************************************)
C6_FinalCommandClosesRange ==
    pc = "done" =>
        /\ Len(commands) >= 1
        /\ IsDraw(commands[Len(commands)])
        /\ commands[Len(commands)].end = Len(vertices)
        /\ commands[Len(commands)].start = current_state.start
        /\ commands[Len(commands)].tag = current_state.tag

\* A finished frame whose last command closes a non-empty Image range opened
\* after a clip change.
C6_Witness ==
    /\ pc = "done"
    /\ HasScizzor(commands)
    /\ commands[Len(commands)].tag = "Image"
    /\ commands[Len(commands)].end > commands[Len(commands)].start

(***************************************************************************)
(* C7.  Running out of glyph cache space is never an error for fill: when  *)
(* the flush made for a Text primitive cannot fit the glyphs queued for    *)
(* it, fill does not panic, it completes the stream.                       *)
(***************************************************************************)
C7_FillSurvivesCacheOverflow ==
    (/\ stream # <<>>
     /\ stream[Len(stream)].kind = "Text"
     /\ Len(NewKeys(queue_glyphs(positioned_glyphs(stream[Len(stream)].text,
                                                   display.dpi)), <<>>)) > GlyphSlots)
        => pc # "panicked"

(***************************************************************************)
(* C8.  An Image primitive whose id is absent from the image map leaves no *)
(* Image command of that id in the command list fill produces.             *)
(***************************************************************************)
C8_NoCommandForAbsentImage ==
    pc = "done" =>
        \A i \in 1..Len(commands) :
            commands[i].tag = "Image" => commands[i].image_id \in DOMAIN image_map

(***************************************************************************)
(* C9.  An Image primitive whose id is absent from the image map adds no   *)
(* vertex and raises no error: the turn of the loop that consumes it       *)
(* leaves the vertex array as it was and fill goes on with the stream; a   *)
(* panic of fill never comes from an Image primitive.                      *)
(***************************************************************************)
C9_AbsentImageIsSilent ==
    [][ /\ (LoopTurn /\ Prim_.kind = "Image"
                     /\ Prim_.image_id \notin DOMAIN image_map)
            => /\ vertices' = vertices
               /\ pc' = "filling"
        /\ (LoopTurn /\ Prim_.kind = "Image") => pc' = "filling"
      ]_vars

\* A finished frame whose stream began with an Image of an absent id and
\* went on to a primitive that pushed vertices.
C9_Witness ==
    /\ pc = "done"
    /\ Len(stream) = 3
    /\ stream[1].kind = "Image" /\ stream[1].image_id \notin DOMAIN image_map
    /\ stream[3].kind = "Rectangle"
    /\ Len(vertices) >= 6

(***************************************************************************)
(* C10.  Every vertex fill stores carries gamma_srgb_to_linear of the      *)
(* colour its primitive supplied, whatever the kind of the primitive.      *)
(***************************************************************************)
\* The colour a primitive supplies for the k-th vertex it pushes.
SuppliedColor(p, k) ==
    CASE p.kind = "TrianglesMultiColor" -> FlatTriangles(p.triangles)[k][2]
      [] p.kind = "Image"               -> image_color(p.color)
      [] OTHER                          -> p.color

C10_EveryVertexColorLinear ==
    [][ LoopTurn =>
            \A i \in (Len(vertices) + 1)..Len(vertices') :
                vertices'[i].color
                    = gamma_srgb_to_linear(SuppliedColor(Prim_, i - Len(vertices)))
      ]_vars

(***************************************************************************)
(* C11.  Every Scizzor rect fill emits has each component clamped to the   *)
(* framebuffer (W, H): 0 <= left <= W, 0 <= width <= W, 0 <= bottom <= H   *)
(* and 0 <= height <= H, also for a clip rect partly or wholly outside the *)
(* framebuffer.                                                            *)
(***************************************************************************)
C11_ScizzorRectsClamped ==
    \A i \in 1..Len(commands) :
        commands[i].tag = "Scizzor" =>
            LET r == commands[i].rect
            IN  /\ 0 <= r.left   /\ r.left   <= display.w
                /\ 0 <= r.width  /\ r.width  <= display.w
                /\ 0 <= r.bottom /\ r.bottom <= display.h
                /\ 0 <= r.height /\ r.height <= display.h

(***************************************************************************)
(* C12.  fill replaces the frame state: when a fill has returned, whatever *)
(* fills came before it, commands and vertices are those of the same fill  *)
(* (same stream, display metrics and image map) on a freshly constructed   *)
(* Renderer; nothing of an earlier frame is left.  (Every glyph of the     *)
(* streams has the same place in the cache in every frame.)                *)
(***************************************************************************)
C12_FillReplacesFrame ==
    pc = "done" =>
        LET fresh == fill(<<>>, display, stream, image_map)
        IN  /\ ~fresh.panicked
            /\ commands = fresh.commands
            /\ vertices = fresh.vertices

\* A finished frame without text on a renderer whose glyph cache was filled
\* by an earlier frame: that frame had pushed the vertices of its glyphs.
C12_Witness ==
    /\ pc = "done"
    /\ glyph_cache # <<>>
    /\ \A i \in 1..Len(stream) : stream[i].kind # "Text"
    /\ Len(stream) >= 2
    /\ Len(vertices) >= 6

(***************************************************************************)
(* Vocabulary of the properties of draw.                                   *)
(***************************************************************************)
\* A step that is a call of draw.
DrawStep == pc \in {"idle", "done"} /\ pc' # "filling"

\* The scissor updates and draw calls among calls.
Submitted(calls) ==
    SelectSeq(calls, LAMBDA c : c.op \in {"enable", "scissor", "draw_arrays"})

\* The positions of the draw calls in calls.
DrawCalls(calls) == {k \in 1..Len(calls) : calls[k].op = "draw_arrays"}

(***************************************************************************)
(* C13.  draw only reads the frame state: a call of draw leaves commands,  *)
(* vertices and the glyph cache as they are, and a draw that returns after *)
(* an earlier draw of the same fill submits the same scissor updates and   *)
(* draw calls as that one (the same calls altogether when it is given the  *)
(* same image map).                                                        *)
(***************************************************************************)
C13_DrawOnlyReads ==
    [][ DrawStep =>
            /\ commands' = commands
            /\ vertices' = vertices
            /\ glyph_cache' = glyph_cache
            /\ (gl_calls # <<>> /\ pc' = pc) =>
                  /\ Submitted(gl_calls') = Submitted(gl_calls)
                  /\ draw_image_map' = draw_image_map => gl_calls' = gl_calls
      ]_vars

\* A frame with a clip change and two non-empty ranges has been drawn.
C13_Witness ==
    /\ pc = "done"
    /\ Cardinality(DrawCalls(gl_calls)) >= 2
    /\ \E k \in 1..Len(gl_calls) : gl_calls[k].op = "scissor"
    /\ glyph_cache # <<>>

\* A draw has returned and no fill has begun since.
Drawn == pc \in {"idle", "done"} /\ gl_calls # <<>>

\* The Plain and Image commands whose range holds a triangle at least.
Drawable(cmds) ==
    SelectSeq(cmds, LAMBDA c : IsDraw(c) /\ c.end - c.start >= NUM_VERTICES_IN_TRIANGLE)

(***************************************************************************)
(* C14.  A draw that returns has issued one GL draw call for each Plain or *)
(* Image command of at least 3 vertices, in the order of the command list: *)
(* the uploads and draw calls of its log are, command by command, the      *)
(* upload of the vertex sub-range of the command and the draw call of that *)
(* many vertices, the draw call right after the upload.  A command of      *)
(* fewer than 3 vertices has no texture bind, no upload and no draw call:  *)
(* the log holds one texture bind per draw call, and the final unbind.     *)
(***************************************************************************)
C14_OneDrawCallPerRange ==
    Drawn =>
        LET big   == Drawable(commands)
            moved == SelectSeq(gl_calls,
                               LAMBDA c : c.op \in {"buffer_data", "draw_arrays"})
            binds == SelectSeq(gl_calls, LAMBDA c : c.op = "bind_texture")
        IN  /\ Len(moved) = 2 * Len(big)
            /\ \A i \in 1..Len(big) :
                  /\ moved[2 * i - 1] = gl_buffer_data(command_slice(big[i], vertices))
                  /\ moved[2 * i] = gl_draw_arrays(big[i].end - big[i].start)
            /\ \A k \in DrawCalls(gl_calls) :
                  /\ gl_calls[k - 1].op = "buffer_data"
                  /\ gl_calls[k - 2].op = "bind_texture"
            /\ Len(binds) = Len(big) + 1

\* A drawn frame of two ranges of different lengths with an empty range
\* between them.
C14_Witness ==
    /\ Drawn
    /\ Cardinality(DrawCalls(gl_calls)) = 2
    /\ \E i, j, k \in 1..Len(commands) :
          /\ i < j /\ j < k
          /\ IsDraw(commands[i]) /\ IsDraw(commands[j]) /\ IsDraw(commands[k])
          /\ commands[j].end = commands[j].start
          /\ commands[i].end - commands[i].start >= NUM_VERTICES_IN_TRIANGLE
          /\ commands[k].end - commands[k].start
                > commands[i].end - commands[i].start

\* The position in calls of the i-th draw call.
DrawCallAt(calls, i) ==
    CHOOSE k \in DrawCalls(calls) :
        Cardinality({j \in DrawCalls(calls) : j < k}) = i - 1

\* The texture bound when the k-th call of calls is made: the name of the
\* last bind_texture before it, 0 when there is none.
BoundTexture(calls, k) ==
    LET b == {j \in 1..(k - 1) : calls[j].op = "bind_texture"}
    IN  IF b = {} THEN 0
        ELSE calls[CHOOSE j \in b : \A i \in b : i <= j].name

(***************************************************************************)
(* C15.  At every GL draw call of a draw that returns, the bound texture   *)
(* is the glyph-cache texture when the command is Plain and the texture    *)
(* the image map of draw holds for id when the command is Image(id); when  *)
(* draw is given the image map fill was given, the id of every Image       *)
(* command that reaches a draw call is in the map, so that no draw call is *)
(* made with no texture bound.                                             *)
(***************************************************************************)
C15_DrawCallTexture ==
    Drawn =>
        LET big == Drawable(commands)
        IN  /\ Cardinality(DrawCalls(gl_calls)) = Len(big)
            /\ \A i \in 1..Len(big) :
                  LET bound == BoundTexture(gl_calls, DrawCallAt(gl_calls, i))
                  IN  /\ big[i].tag = "Plain" => bound = glyph_texture
                      /\ (big[i].tag = "Image" /\ big[i].image_id \in DOMAIN draw_image_map)
                            => bound = draw_image_map[big[i].image_id].texture
                      /\ draw_image_map = image_map =>
                            /\ big[i].tag = "Image" => big[i].image_id \in DOMAIN image_map
                            /\ bound # 0

\* A frame of a glyph range, an image range and the empty range of an
\* absent image id has been drawn with the image map of its fill.
C15_Witness ==
    /\ Drawn
    /\ pc = "done"
    /\ draw_image_map = image_map
    /\ \E i \in 1..Len(commands) :
          commands[i].tag = "Image" /\ commands[i].image_id \notin DOMAIN image_map
    /\ \E i \in 1..Len(Drawable(commands)) : Drawable(commands)[i].tag = "Image"
    /\ \E i \in 1..Len(Drawable(commands)) : Drawable(commands)[i].tag = "Plain"

(***************************************************************************)
(* C16.  A failure of the GL context during construction (shader compile,  *)
(* program link, buffer, vertex-array or texture creation) is reported to  *)
(* the caller as an Err result of the construction call, not by aborting.  *)
(***************************************************************************)
C16_ConstructionFailureIsErr ==
    (construction.call # "" /\ construction.fault # "none")
        => construction.result = "Err"

(***************************************************************************)
(* C17.  In both event loops a call of the handler calls renderer.draw     *)
(* only directly after renderer.fill has returned in that same call (the   *)
(* GL calls that clear and set up the frame are all that lies between),    *)
(* and fill only on the primitives ui.draw_if_changed() has just yielded;  *)
(* the GL calls of that draw are those of a draw of what this fill left.   *)
(* As long as no fill has been called no draw has been called.             *)
(***************************************************************************)
C17_DrawOnlyAfterFill ==
    LET n == Len(handler_calls)
        Called(name) == {k \in 1..n : handler_calls[k] = name}
        Setup == {frame_setup(target_arch)[i] : i \in 1..Len(frame_setup(target_arch))}
    IN  /\ Cardinality(Called("renderer.draw")) <= 1
        /\ Cardinality(Called("renderer.fill")) <= 1
        /\ \A k \in Called("renderer.fill") :
              k > 1 /\ handler_calls[k - 1] = "ui.draw_if_changed -> Some"
        /\ \A k \in Called("renderer.draw") :
              \E j \in Called("renderer.fill") :
                  /\ j < k
                  /\ \A i \in (j + 1)..(k - 1) : handler_calls[i] \in Setup
                  /\ stream \in UiStreams
                  /\ draw_image_map = image_map
                  /\ gl_calls = SubSeq(draw(commands, vertices, image_map),
                                       1, Len(gl_calls))
        /\ pc = "idle" => gl_calls = <<>>

\* A handler of the native loop that ran after an earlier one has filled a
\* frame of several commands and drawn it.
C17_Witness ==
    /\ target_arch = "native"
    /\ event = "MainEventsCleared"
    /\ pc = "done"
    /\ \E k \in 2..Len(handler_calls) :
          /\ handler_calls[k - 1] = "renderer.draw"
          /\ handler_calls[k] = "context.swap_buffers"
    /\ Len(commands) >= 3
    /\ Cardinality(DrawCalls(gl_calls)) >= 2

(***************************************************************************)
(* C18.  For the stream Rectangle, Image(id), Rectangle with id in the     *)
(* image map and the three clip rects converting to the whole framebuffer, *)
(* fill produces exactly three commands, Plain, Image(id), Plain in that   *)
(* order, each covering the 6 vertices of its own primitive.               *)
(***************************************************************************)
C18_Scenario ==
    /\ pc = "done"
    /\ Len(stream) = 3
    /\ stream[1].kind = "Rectangle"
    /\ stream[2].kind = "Image" /\ stream[2].image_id \in DOMAIN image_map
    /\ stream[3].kind = "Rectangle"
    /\ \A i \in 1..3 :
          rect_to_gl_rect(stream[i].scizzor, display) = DefaultScizzor(display)

C18_RectangleImageRectangle ==
    C18_Scenario =>
        /\ commands = << CmdPlain(0, 6), CmdImage(stream[2].image_id, 6, 12),
                         CmdPlain(12, 18) >>
        /\ Len(vertices) = 18
        /\ \A k \in 1..6 :
              /\ vertices[k] = fill_rectangle(fill_begin(<<>>, display),
                                              stream[1], display).vertices[k]
              /\ vertices[6 + k].mode = MODE_IMAGE
              /\ vertices[12 + k] = fill_rectangle(fill_begin(<<>>, display),
                                                   stream[3], display).vertices[k]

\* The scenario on the display of scale factor 2, with an image that has a
\* colour and a source rect.
C18_Witness ==
    /\ C18_Scenario
    /\ display.dpi = 2
    /\ stream[2].color # <<>>

(***************************************************************************)
(* C19.  For a stream of one Rectangle over the whole window, its clip the *)
(* whole framebuffer, on a framebuffer of 800x600 at scale factor 1, fill  *)
(* produces exactly one command, Plain, of 6 vertices, all of mode         *)
(* MODE_GEOMETRY, whose positions are the four corners (-1,-1), (1,-1),    *)
(* (-1,1), (1,1) of the device square: two triangles that share the        *)
(* diagonal from (-1,1) to (1,-1).                                         *)
(***************************************************************************)
C19_Scenario ==
    /\ pc = "done"
    /\ display = Window800x600
    /\ Len(stream) = 1
    /\ stream[1].kind = "Rectangle"
    /\ stream[1].rect = WindowRect
    /\ stream[1].scizzor = WindowRect

C19_FullWindowRectangle ==
    C19_Scenario =>
        /\ commands = << CmdPlain(0, 6) >>
        /\ Len(vertices) = 6
        /\ \A k \in 1..6 : vertices[k].mode = MODE_GEOMETRY
        /\ {vertices[k].position : k \in 1..6}
              = { <<-NdcScale, -NdcScale>>, <<NdcScale, -NdcScale>>,
                  <<-NdcScale, NdcScale>>, <<NdcScale, NdcScale>> }
        /\ vertices[1].position = <<-NdcScale, NdcScale>>
        /\ vertices[4].position = <<-NdcScale, NdcScale>>
        /\ vertices[2].position = <<NdcScale, -NdcScale>>
        /\ vertices[5].position = <<NdcScale, -NdcScale>>
        /\ {vertices[3].position, vertices[6].position}
              = { <<-NdcScale, -NdcScale>>, <<NdcScale, NdcScale>> }

\* The finished frame of the scenario: the red Rectangle, its vertices filled.
C19_Witness ==
    /\ C19_Scenario
    /\ stream[1].color = RED
    /\ Len(vertices) > 0

(***************************************************************************)
(* C20.  A primitive of kind Other is a no-op that never breaks batching:  *)
(* whatever draw state fill is in and whatever clip the primitive carries, *)
(* the turn of the loop that takes it appends no command and no vertex and *)
(* leaves the draw state unchanged (so the commands of a stream are those  *)
(* of the same stream with its Other primitives removed).                  *)
(***************************************************************************)
\* The turn of fill's loop that takes a primitive of kind Other.
OtherTurn ==
    /\ pc = "filling"
    /\ Len(stream') = Len(stream) + 1
    /\ stream'[Len(stream')].kind = "Other"

C20_OtherIsNoOp ==
    [][OtherTurn =>
          /\ commands' = commands
          /\ vertices' = vertices
          /\ current_state' = current_state]_vars

(***************************************************************************)
(* C21.  A TrianglesSingleColor or TrianglesMultiColor primitive with zero *)
(* triangles is skipped whole: whatever draw state fill is in and whatever *)
(* clip the primitive carries, the turn that takes it appends no command   *)
(* and no vertex and leaves the draw state unchanged (an open Image range  *)
(* stays open).  A non-empty batch appends exactly 3 vertices per          *)
(* triangle, in the order of the triangles and of their points.            *)
(***************************************************************************)
\* The turn of fill's loop that takes a batch of triangles.
TrianglesTurn ==
    /\ LoopTurn
    /\ Prim_.kind \in {"TrianglesSingleColor", "TrianglesMultiColor"}

\* The point of the i-th vertex of the batch p.
BatchPoint(p, i) ==
    LET q == FlatTriangles(p.triangles)[i]
    IN  IF p.kind = "TrianglesMultiColor" THEN q[1] ELSE q

C21_EmptyBatchSkipped ==
    [][TrianglesTurn =>
          IF Prim_.triangles = <<>>
          THEN /\ commands' = commands
               /\ vertices' = vertices
               /\ current_state' = current_state
          ELSE /\ Len(vertices') = Len(vertices) + 3 * Len(Prim_.triangles)
               /\ SubSeq(vertices', 1, Len(vertices)) = vertices
               /\ \A i \in 1..(3 * Len(Prim_.triangles)) :
                     vertices'[Len(vertices) + i].position
                        = << vx(BatchPoint(Prim_, i)[1], display),
                             vy(BatchPoint(Prim_, i)[2], display) >>
      ]_vars

(***************************************************************************)
(* C22.  In the command list fill produces, the vertex ranges of           *)
(* successive Plain/Image commands never overlap and are strictly          *)
(* increasing: each range begins strictly after the range before it begins *)
(* and ends strictly after it ends.                                        *)
(***************************************************************************)
C22_RangesStrictlyIncreasing ==
    pc = "done" =>
        LET d == DrawCommands(commands)
        IN  \A i \in 2..Len(d) :
                /\ d[i].start >= d[i - 1].end
                /\ d[i].start > d[i - 1].start
                /\ d[i].end > d[i - 1].end

(***************************************************************************)
(* C23.  A Text primitive appends exactly 6 vertices, all of mode          *)
(* MODE_TEXT, for each of its glyphs that has a placement in the cache     *)
(* after the flush, in glyph order, and none for a glyph without a         *)
(* placement: a Text primitive with a glyph without a placement            *)
(* contributes strictly fewer than 6 x glyph_count vertices, and no Text   *)
(* primitive contributes more than 6 x glyph_count.                        *)
(***************************************************************************)
\* The turn of fill's loop that takes a Text primitive.
TextTurn == LoopTurn /\ Prim_.kind = "Text"

\* The glyphs of the Text primitive of this turn, as they are laid out.
TurnGlyphs == positioned_glyphs(Prim_.text, display.dpi)

\* Those of them that have a placement in the cache the turn leaves.
PlacedGlyphs ==
    SelectSeq(TurnGlyphs, LAMBDA g : rect_for(glyph_cache', g) # <<>>)

\* The vertices the turn appended.
AppendedVertices == SubSeq(vertices', Len(vertices) + 1, Len(vertices'))

C23_SixVerticesPerPlacedGlyph ==
    [][TextTurn =>
        \A placed \in {PlacedGlyphs} : \A pushed \in {AppendedVertices} :
          /\ SubSeq(vertices', 1, Len(vertices)) = vertices
          /\ Len(pushed) = 6 * Len(placed)
          /\ \A k \in 1..Len(pushed) : pushed[k].mode = MODE_TEXT
          /\ \A j \in 1..Len(placed) :
                \E placement \in {rect_for(glyph_cache', placed[j])[1]} :
                \E gl \in {to_gl_rect(placement.screen_rect, display)} :
                \E quad \in {SubSeq(pushed, 6 * j - 5, 6 * j)} :
                    /\ {quad[k].position : k \in 1..6}
                          = {<<gl.min[1], gl.min[2]>>, <<gl.min[1], gl.max[2]>>,
                             <<gl.max[1], gl.min[2]>>, <<gl.max[1], gl.max[2]>>}
                    /\ \A k \in 1..6 :
                          /\ quad[k].tex_coords[1]
                                \in {placement.uv_rect.min[1], placement.uv_rect.max[1]}
                          /\ quad[k].tex_coords[2]
                                \in {placement.uv_rect.min[2], placement.uv_rect.max[2]}
          /\ Len(pushed) <= 6 * Len(Prim_.text)
          /\ Len(placed) < Len(Prim_.text) => Len(pushed) < 6 * Len(Prim_.text)
      ]_vars

\* A Text primitive of three glyphs, the second without a placement, has
\* pushed its twelve vertices after the six of a Rectangle.
C23_Witness ==
    /\ pc = "filling"
    /\ Len(stream) = 2
    /\ stream[1].kind = "Rectangle"
    /\ stream[2].kind = "Text"
    /\ Len(stream[2].text) = 3
    /\ Len(vertices) = 18
    /\ \A k \in 7..18 : vertices[k].mode = MODE_TEXT
    /\ rect_for(glyph_cache, positioned_glyphs(stream[2].text, display.dpi)[2]) = <<>>

(***************************************************************************)
(* C24.  The glyph cache that GlyphCache::new builds for Renderer::new has *)
(* the dimensions of the display's framebuffer at the time of the call:    *)
(* when Renderer::new has returned a Renderer, before any frame, the width *)
(* and height of its glyph cache are those of the framebuffer.             *)
(***************************************************************************)
C24_GlyphCacheHasFramebufferDimensions ==
    (/\ pc = "idle"
     /\ construction.call = "Renderer::new"
     /\ construction.result = "Ok")
        => /\ construction.width = display.w
           /\ construction.height = display.h

(***************************************************************************)
(* C25.  With the clip unchanged, a primitive appends a command only when  *)
(* it changes the draw state: a Rectangle, a non-empty batch of triangles  *)
(* or a Text arriving in Plain state appends none, and an Image(id)        *)
(* arriving in Image(id) state appends none and extends the open range.    *)
(* Hence a stream that is a run of k Image primitives of one present id    *)
(* yields one Image command, of 6k vertices, and a stream that is a run of *)
(* plain primitives yields one Plain command.                              *)
(***************************************************************************)
\* The draw state without the start of its range.
StateKind(st) == IF st.tag = "Plain" THEN <<"Plain", 0>> ELSE <<"Image", st.image_id>>

\* p is drawn in Plain state: a Rectangle, a non-empty batch or a Text.
IsPlainPrimitive(p) ==
    \/ p.kind \in {"Rectangle", "Text"}
    \/ p.kind \in {"TrianglesSingleColor", "TrianglesMultiColor"} /\ p.triangles # <<>>

\* No primitive of the stream s changes the clip of the frame.
ClipUnchanged(s) ==
    \A i \in 1..Len(s) : rect_to_gl_rect(s[i].scizzor, display) = DefaultScizzor(display)

C25_CommandOnlyOnStateChange ==
    [][ /\ (LoopTurn /\ NewScizzor = current_scizzor) =>
              /\ commands' # commands
                    => StateKind(current_state') # StateKind(current_state)
              /\ (IsPlainPrimitive(Prim_) /\ current_state.tag = "Plain")
                    => commands' = commands /\ current_state' = current_state
              /\ (Prim_.kind = "Image" /\ current_state.tag = "Image"
                     /\ current_state.image_id = Prim_.image_id)
                    => /\ commands' = commands
                       /\ current_state' = current_state
                       /\ Prim_.image_id \in DOMAIN image_map
                             => Len(vertices') = Len(vertices) + 6
        /\ (pc = "filling" /\ pc' = "done" /\ stream # <<>> /\ ClipUnchanged(stream)) =>
              /\ (\E id \in DOMAIN image_map :
                     \A i \in 1..Len(stream) :
                        stream[i].kind = "Image" /\ stream[i].image_id = id)
                    => LET im == SelectSeq(commands', LAMBDA c : c.tag = "Image")
                       IN  /\ Len(im) = 1
                           /\ im[1].image_id = stream[1].image_id
                           /\ im[1].end - im[1].start = 6 * Len(stream)
                           /\ Len(vertices) = 6 * Len(stream)
              /\ (\A i \in 1..Len(stream) : IsPlainPrimitive(stream[i]))
                    => commands' = << CmdPlain(0, Len(vertices)) >>
      ]_vars

\* The frame of a run of three Image primitives of one present id: one
\* Image command of 18 vertices.
C25_Witness ==
    /\ pc = "done"
    /\ Len(stream) = 3
    /\ ClipUnchanged(stream)
    /\ \A i \in 1..3 : stream[i].kind = "Image" /\ stream[i].image_id = 1
    /\ commands = << CmdPlain(0, 0), CmdImage(1, 0, 18) >>

(***************************************************************************)
(* C26.  draw starts with the scissor test disabled.  At every GL draw     *)
(* call the scissor state is: disabled when no Scizzor command precedes    *)
(* the drawn command in the command list, else enabled with the rect of    *)
(* the last Scizzor command before it.  A Scizzor command issues no draw   *)
(* call: a draw that returns has made one gl.scissor call per Scizzor      *)
(* command and one draw call per range of a triangle at least.             *)
(***************************************************************************)
\* Whether the command c reaches a draw call.
IsDrawable(c) == IsDraw(c) /\ c.end - c.start >= NUM_VERTICES_IN_TRIANGLE

\* The position in cmds of the i-th command that reaches a draw call.
DrawableAt(cmds, i) ==
    CHOOSE j \in 1..Len(cmds) :
        /\ IsDrawable(cmds[j])
        /\ Cardinality({h \in 1..(j - 1) : IsDrawable(cmds[h])}) = i - 1

\* The positions of the Scizzor commands of cmds before position j.
ScizzorsBefore(cmds, j) == {h \in 1..(j - 1) : cmds[h].tag = "Scizzor"}

Last(S) == CHOOSE j \in S : \A i \in S : i <= j

\* The scissor state of the GL context when the k-th call of calls is made:
\* whether the last gl.enable / gl.disable of SCISSOR_TEST before it was an
\* enable, and the rect the last gl.scissor before it set (NoRect for none).
ScissorEnabled(calls, k) ==
    LET t == {j \in 1..(k - 1) : calls[j].cap = "SCISSOR_TEST"}
    IN  t # {} /\ calls[Last(t)].op = "enable"

ScissorRect(calls, k) ==
    LET s == {j \in 1..(k - 1) : calls[j].op = "scissor"}
    IN  IF s = {} THEN NoRect ELSE calls[Last(s)].rect

C26_ScissorStateAtDrawCalls ==
    gl_calls # <<>> =>
        /\ gl_calls[1] = gl_disable("SCISSOR_TEST")
        /\ Cardinality(DrawCalls(gl_calls)) <= Len(Drawable(commands))
        /\ \A i \in 1..Cardinality(DrawCalls(gl_calls)) :
              LET k == DrawCallAt(gl_calls, i)
                  before == ScizzorsBefore(commands, DrawableAt(commands, i))
              IN  IF before = {}
                  THEN ~ScissorEnabled(gl_calls, k)
                  ELSE /\ ScissorEnabled(gl_calls, k)
                       /\ ScissorRect(gl_calls, k) = commands[Last(before)].rect
        /\ Drawn =>
              /\ Cardinality({k \in 1..Len(gl_calls) : gl_calls[k].op = "scissor"})
                    = ScizzorCount(commands)
              /\ Cardinality(DrawCalls(gl_calls)) = Len(Drawable(commands))

\* A drawn frame with a draw call made with the scissor test disabled and a
\* later one made with it enabled.
C26_Witness ==
    /\ Drawn
    /\ pc = "done"
    /\ \E k1, k2 \in DrawCalls(gl_calls) :
          /\ k1 < k2
          /\ ~ScissorEnabled(gl_calls, k1)
          /\ ScissorEnabled(gl_calls, k2)
          /\ ScissorRect(gl_calls, k2) # NoRect

(***************************************************************************)
(* C27.  End to end, fill followed by draw on the same frame: every vertex *)
(* is drawn under the scissor rect that is the converted clip rect of the  *)
(* primitive that produced it, a disabled scissor test counting as the     *)
(* rect (0, 0, W, H) of the whole framebuffer; no vertex is drawn under    *)
(* the clip of an earlier or a later primitive.                            *)
(***************************************************************************)
\* How many vertices the primitive p contributes to a frame that fill
\* finishes with the image map m at the scale dpi.
VertexCount(p, m, dpi) ==
    CASE p.kind = "Rectangle" -> 6
      [] p.kind \in {"TrianglesSingleColor", "TrianglesMultiColor"}
            -> 3 * Len(p.triangles)
      [] p.kind = "Text" -> 6 * Len(queue_glyphs(positioned_glyphs(p.text, dpi)))
      [] p.kind = "Image" -> IF p.image_id \in DOMAIN m THEN 6 ELSE 0
      [] OTHER -> 0

\* How many vertices the first n primitives of the stream s contribute.
RECURSIVE VerticesUpTo(_, _, _, _)
VerticesUpTo(s, n, m, dpi) ==
    IF n = 0 THEN 0
    ELSE VerticesUpTo(s, n - 1, m, dpi) + VertexCount(s[n], m, dpi)

\* cum[i]: how many vertices the first i primitives of the stream contribute.
CumulativeVertices ==
    [i \in 0..Len(stream) |-> VerticesUpTo(stream, i, image_map, display.dpi)]

\* The place in the stream of the primitive that produced vertices[v], given
\* cum = CumulativeVertices.
Producer(cum, v) ==
    CHOOSE i \in 1..Len(stream) : cum[i - 1] < v /\ v <= cum[i]

\* The rect drawing is clipped to when the k-th call of calls is made.
EffectiveScissor(calls, k) ==
    IF ScissorEnabled(calls, k) THEN ScissorRect(calls, k)
                                ELSE DefaultScizzor(display)

C27_VertexDrawnUnderOwnClip ==
    gl_calls # <<>> =>
      \A cum \in {CumulativeVertices} :
        /\ Len(vertices) = cum[Len(stream)]
        /\ \A i \in 1..Cardinality(DrawCalls(gl_calls)) :
              \E k \in {DrawCallAt(gl_calls, i)} :
              \E c \in {commands[DrawableAt(commands, i)]} :
              \E under \in {EffectiveScissor(gl_calls, k)} :
                  /\ gl_calls[k - 1] = gl_buffer_data(command_slice(c, vertices))
                  /\ gl_calls[k].count = c.end - c.start
                  /\ \A v \in (c.start + 1)..c.end :
                        under = rect_to_gl_rect(stream[Producer(cum, v)].scizzor,
                                                display)
        /\ Drawn =>
              \A v \in 1..Len(vertices) :
                  \E i \in 1..Cardinality(DrawCalls(gl_calls)) :
                      /\ commands[DrawableAt(commands, i)].start < v
                      /\ v <= commands[DrawableAt(commands, i)].end

\* A drawn frame of three primitives with vertices, the second with a clip
\* of its own: its vertices were drawn under that clip, the others under
\* the whole framebuffer, once with the test disabled and once enabled.
C27_Witness ==
    /\ pc = "done"
    /\ Drawn
    /\ Len(stream) = 3
    /\ rect_to_gl_rect(stream[1].scizzor, display) = DefaultScizzor(display)
    /\ rect_to_gl_rect(stream[2].scizzor, display) # DefaultScizzor(display)
    /\ rect_to_gl_rect(stream[3].scizzor, display) = DefaultScizzor(display)
    /\ \A i \in 1..3 : VertexCount(stream[i], image_map, display.dpi) > 0
    /\ Cardinality(DrawCalls(gl_calls)) = 3

(***************************************************************************)
(* C28.  Drawing order follows primitive order.  Each turn of fill's loop  *)
(* pushes the vertices of its primitive behind the vertices already there, *)
(* which it leaves as they are: all vertices of primitive i precede all    *)
(* vertices of primitive j when i comes before j in the stream.  draw      *)
(* submits the Plain/Image ranges in the order of the command list: the    *)
(* vertices of its draw calls, call after call, are the vertex array from  *)
(* its start (the whole array when draw returns).                          *)
(***************************************************************************)
\* The vertices the draw calls among the first k calls have drawn, in order:
\* a draw call draws the buffer the call before it uploaded.
RECURSIVE DrawnVertices(_, _)
DrawnVertices(calls, k) ==
    IF k = 0 THEN <<>>
    ELSE DrawnVertices(calls, k - 1)
            \o (IF calls[k].op = "draw_arrays"
                THEN SubSeq(calls[k - 1].data, 1, calls[k].count)
                ELSE <<>>)

C28_DrawingOrderIsPrimitiveOrder ==
    [][ /\ LoopTurn =>
              /\ Len(vertices') >= Len(vertices)
              /\ SubSeq(vertices', 1, Len(vertices)) = vertices
              /\ pc' = "filling" =>
                    Len(AppendedVertices)
                       = VertexCount(Prim_, image_map, display.dpi)
        /\ DrawStep =>
              \A drawn \in {DrawnVertices(gl_calls', Len(gl_calls'))} :
                  /\ Len(drawn) <= Len(vertices)
                  /\ drawn = SubSeq(vertices, 1, Len(drawn))
                  /\ pc' = pc => drawn = vertices
                  /\ \A i \in 1..Cardinality(DrawCalls(gl_calls')) :
                        gl_calls'[DrawCallAt(gl_calls', i) - 1]
                           = gl_buffer_data(command_slice(
                                 commands[DrawableAt(commands, i)], vertices))
      ]_vars

\* A frame of three primitives with vertices has been drawn with two draw
\* calls, which drew the whole vertex array in its order.
C28_Witness ==
    /\ pc = "done"
    /\ Drawn
    /\ Len(stream) = 3
    /\ \A i \in 1..3 : VertexCount(stream[i], image_map, display.dpi) > 0
    /\ Cardinality(DrawCalls(gl_calls)) = 2
    /\ DrawnVertices(gl_calls, Len(gl_calls)) = vertices

(***************************************************************************)
(* C29.  After fill, the mode of a vertex agrees with the command that     *)
(* covers it: every vertex inside an Image(id) command has mode MODE_IMAGE *)
(* and was produced by an Image primitive of that id, every vertex inside  *)
(* a Plain command has mode MODE_TEXT or MODE_GEOMETRY.  In draw, no       *)
(* vertex of mode MODE_IMAGE is drawn with the glyph texture bound and no  *)
(* vertex of mode MODE_TEXT with a texture of the image map bound.         *)
(***************************************************************************)
\* The textures of the image map m.
ImageTextures(m) == {m[id].texture : id \in DOMAIN m}

C29_ModeAgreesWithCommand ==
    (pc = "done" \/ gl_calls # <<>>) =>
      \A cum \in {CumulativeVertices} :
        /\ Len(vertices) = cum[Len(stream)]
        /\ \A j \in 1..Len(commands) :
              IsDraw(commands[j]) =>
                 \A v \in (commands[j].start + 1)..commands[j].end :
                    \E p \in {stream[Producer(cum, v)]} :
                       IF commands[j].tag = "Image"
                       THEN /\ vertices[v].mode = MODE_IMAGE
                            /\ p.kind = "Image"
                            /\ p.image_id = commands[j].image_id
                       ELSE /\ vertices[v].mode \in {MODE_TEXT, MODE_GEOMETRY}
                            /\ p.kind # "Image"
        /\ \A i \in 1..Cardinality(DrawCalls(gl_calls)) :
              \E k \in {DrawCallAt(gl_calls, i)} :
              \E bound \in {BoundTexture(gl_calls, k)} :
              \E drawn \in {SubSeq(gl_calls[k - 1].data, 1, gl_calls[k].count)} :
                  \A n \in 1..Len(drawn) :
                      /\ drawn[n].mode = MODE_IMAGE => bound # glyph_texture
                      /\ drawn[n].mode = MODE_TEXT
                            => /\ bound = glyph_texture
                               /\ bound \notin ImageTextures(draw_image_map)

\* A drawn frame of an Image range between a range of glyphs and a range of
\* geometry.
C29_Witness ==
    /\ pc = "done"
    /\ Drawn
    /\ Len(stream) = 3
    /\ stream[1].kind = "Text"
    /\ stream[2].kind = "Image"
    /\ stream[3].kind = "Rectangle"
    /\ Cardinality(DrawCalls(gl_calls)) = 3
    /\ \E v \in 1..Len(vertices) : vertices[v].mode = MODE_TEXT
    /\ \E v \in 1..Len(vertices) : vertices[v].mode = MODE_IMAGE
    /\ \E v \in 1..Len(vertices) : vertices[v].mode = MODE_GEOMETRY

(***************************************************************************)
(* C30.  The clip comparison runs for every primitive before its kind is   *)
(* examined: a primitive of any kind whose converted clip differs from the *)
(* active one closes the current range, appends a Scizzor command and      *)
(* updates the active clip.  That holds for a batch of zero triangles, an  *)
(* Other primitive and an Image of an absent id too, which contribute no   *)
(* vertices.                                                               *)
(***************************************************************************)
\* p contributes no vertex to a frame filled with the image map m.
IsVertexless(p, m) ==
    \/ p.kind = "Other"
    \/ p.kind \in {"TrianglesSingleColor", "TrianglesMultiColor"} /\ p.triangles = <<>>
    \/ p.kind = "Image" /\ p.image_id \notin DOMAIN m

C30_ClipComparedBeforeKind ==
    [][(LoopTurn /\ NewScizzor # current_scizzor) =>
          /\ Len(Appended) >= 2
          /\ Appended[1] = CloseCommand(current_state, Len(vertices))
          /\ Appended[2] = CmdScizzor(NewScizzor)
          /\ current_scizzor' = NewScizzor
          /\ IsVertexless(Prim_, image_map) =>
                /\ vertices' = vertices
                /\ pc' = "filling"
                /\ Prim_.kind # "Image" =>
                      /\ Len(Appended) = 2
                      /\ current_state' = StatePlain(Len(vertices))
      ]_vars

\* Three primitives without vertices, an Other, an empty batch and an Image
\* of an absent id, each with a clip other than the one before it: three
\* Scizzor commands and no vertex.
C30_Witness ==
    /\ pc = "filling"
    /\ Len(stream) = 3
    /\ \A i \in 1..3 : IsVertexless(stream[i], image_map)
    /\ \E i \in 1..3 : stream[i].kind = "Other"
    /\ \E i \in 1..3 : stream[i].kind = "TrianglesMultiColor"
    /\ \E i \in 1..3 : stream[i].kind = "Image"
    /\ vertices = <<>>
    /\ ScizzorCount(commands) = 3

(***************************************************************************)
(* C31.  In every command list fill produces, each Scizzor command comes   *)
(* right after a Plain or Image command (the range it closed, which may be *)
(* empty) and is neither the first nor the last command; no two Scizzor    *)
(* commands are adjacent, and the list is never empty.                     *)
(***************************************************************************)
C31_ScizzorFollowsClosedRange ==
    pc = "done" =>
        /\ commands # <<>>
        /\ \A i \in 1..Len(commands) :
              commands[i].tag = "Scizzor" =>
                  /\ 1 < i /\ i < Len(commands)
                  /\ IsDraw(commands[i - 1])
                  /\ commands[i + 1].tag # "Scizzor"

\* A finished frame with two Scizzor commands, one right after an Image
\* command, one right after an empty range.
C31_Witness ==
    /\ pc = "done"
    /\ ScizzorCount(commands) = 2
    /\ \E i \in 2..Len(commands) :
          /\ commands[i].tag = "Scizzor"
          /\ commands[i - 1].tag = "Image"
          /\ commands[i - 1].end > commands[i - 1].start
    /\ \E i \in 2..Len(commands) :
          /\ commands[i].tag = "Scizzor"
          /\ commands[i - 1].end = commands[i - 1].start

(***************************************************************************)
(* C32.  Renderer::commands yields exactly one Command per stored command, *)
(* in stored order, each Draw slice being vertices[range] of its command.  *)
(* Every stored range has start <= end <= vertices.len() after any         *)
(* sequence of fill calls, and before the first one, when the iterator     *)
(* yields nothing: the iterator never indexes out of bounds.  Calling      *)
(* commands() again yields the same sequence from its start, wherever an   *)
(* earlier iterator stands.                                                *)
(***************************************************************************)
\* The iterator it after n calls of next.
RECURSIVE Advanced(_, _)
Advanced(it, n) == IF n = 0 THEN it ELSE Advanced(Commands_next(it).it, n - 1)

C32_CommandsYieldsStoredCommands ==
    /\ \A i \in 1..Len(commands) :
          IsDraw(commands[i]) =>
              /\ 0 <= commands[i].start
              /\ commands[i].start <= commands[i].end
              /\ commands[i].end <= Len(vertices)
    /\ pc \in {"idle", "done"} =>
          \A yielded \in {Commands_collect(Renderer_commands(commands, vertices))} :
              /\ Len(yielded) = Len(commands)
              /\ stream = <<>> /\ pc = "idle" => yielded = <<>>
              /\ \A i \in 1..Len(commands) :
                    IF commands[i].tag = "Scizzor"
                    THEN yielded[i] = [tag |-> "Scizzor", rect |-> commands[i].rect]
                    ELSE /\ yielded[i].tag = "Draw"
                         /\ yielded[i].draw = commands[i].tag
                         /\ commands[i].tag = "Image"
                               => yielded[i].image_id = commands[i].image_id
                         /\ Len(yielded[i].slice) = commands[i].end - commands[i].start
                         /\ \A k \in 1..Len(yielded[i].slice) :
                               yielded[i].slice[k] = vertices[commands[i].start + k]
              /\ \A n \in 0..Len(commands) :
                    /\ Advanced(Renderer_commands(commands, vertices), n).pos = n
                    /\ Commands_collect(Advanced(Renderer_commands(commands, vertices), n))
                          = SubSeq(yielded, n + 1, Len(yielded))
              /\ Commands_next(Advanced(Renderer_commands(commands, vertices),
                                        Len(commands))).item.tag = "None"

\* A finished frame whose commands are an empty range, a Scizzor command,
\* an Image range and a Plain range with vertices.
C32_Witness ==
    /\ pc = "done"
    /\ HasScizzor(commands)
    /\ \E i \in 1..Len(commands) : IsDraw(commands[i]) /\ commands[i].end = commands[i].start
    /\ \E i \in 1..Len(commands) :
          commands[i].tag = "Image" /\ commands[i].end > commands[i].start
    /\ \E i \in 1..Len(commands) :
          commands[i].tag = "Plain" /\ commands[i].end > commands[i].start
    /\ Len(Commands_collect(Renderer_commands(commands, vertices))) >= 4

(***************************************************************************)
(* C33.  The per-frame hot path never surfaces a failure: on a correctly   *)
(* constructed Renderer, whatever the primitives and the image map, fill   *)
(* returns normally and draw returns Ok(()); neither call aborts the       *)
(* frame.                                                                  *)
(***************************************************************************)
C33_HotPathNeverFails ==
    construction.result = "Ok" => pc \in {"idle", "filling", "done"}

(***************************************************************************)
(* C34.  Whenever draw returns it has reset the GL state it touched,       *)
(* whatever the command list held: the scissor test is disabled and the 2D *)
(* texture, the program, the vertex array and the array buffer are         *)
(* unbound.  A scissor rect that a Scizzor command of one frame set is     *)
(* never still in force when the next draw issues its draw calls: even on  *)
(* a context that draw finds with the test enabled, the test is enabled at *)
(* a draw call only when this draw has enabled it and set its rect.        *)
(***************************************************************************)
\* The object the last call of the function op among calls has bound; -1
\* when there is no such call.
LastBound(calls, op) ==
    LET s == {j \in 1..Len(calls) : calls[j].op = op}
    IN  IF s = {} THEN -1 ELSE calls[Last(s)].name

\* The calls of calls before the k-th that enable or disable the scissor test.
ScissorToggles(calls, k) == {j \in 1..(k - 1) : calls[j].cap = "SCISSOR_TEST"}

C34_DrawResetsGlState ==
    Drawn =>
        /\ ~ScissorEnabled(gl_calls, Len(gl_calls) + 1)
        /\ ScissorToggles(gl_calls, Len(gl_calls) + 1) # {}
        /\ LastBound(gl_calls, "bind_texture") = 0
        /\ LastBound(gl_calls, "use_program") = 0
        /\ LastBound(gl_calls, "bind_vertex_array") = 0
        /\ LastBound(gl_calls, "bind_buffer") = 0
        /\ \A k \in DrawCalls(gl_calls) :
              \E t \in {ScissorToggles(gl_calls, k)} :
                  /\ t # {}
                  /\ gl_calls[Last(t)].op = "enable"
                        => /\ Last(t) + 1 < k
                           /\ gl_calls[Last(t) + 1].op = "scissor"

\* A draw of a frame with a clip change has returned: the test was enabled
\* and a texture bound up to the calls that reset them.
C34_Witness ==
    /\ Drawn
    /\ pc = "done"
    /\ ScizzorCount(commands) >= 1
    /\ \E k \in 1..Len(gl_calls) :
          /\ gl_calls[k] = gl_bind_texture(0)
          /\ ScissorEnabled(gl_calls, k)
          /\ BoundTexture(gl_calls, k) # 0
    /\ \E k \in DrawCalls(gl_calls) : ~ScissorEnabled(gl_calls, k)

(***************************************************************************)
(* C35.  In the native event loop a handler sets the UI (set_widgets, then *)
(* fill and draw if the UI has changed) only on NewEvents(Init), on        *)
(* NewEvents(ResumeTimeReached), or on MainEventsCleared while no update   *)
(* is scheduled (next_update is None) and one is needed                    *)
(* (ui_update_needed).  While an update is scheduled only the timer event  *)
(* sets the UI.  After every handler that returns without exiting, control *)
(* flow is WaitUntil if next_update is Some and Wait otherwise.            *)
(***************************************************************************)
\* The handler of this step has set the UI.
SetsUi == InSeq("set_widgets", handler_calls')

C35_NativeThrottle ==
    [][ target_arch = "native" =>
          /\ SetsUi =>
                \/ event' \in {"NewEvents(Init)", "NewEvents(ResumeTimeReached)"}
                \/ /\ event' = "MainEventsCleared"
                   /\ next_update = <<>>
                   /\ ui_update_needed
          /\ (SetsUi /\ next_update # <<>>) => event' = "NewEvents(ResumeTimeReached)"
          /\ (InSeq("renderer.fill", handler_calls')
                \/ InSeq("renderer.draw", handler_calls')) => SetsUi
          /\ (event' \notin ExitEvents /\ pc' # "panicked") =>
                control_flow' = IF next_update' # <<>> THEN "WaitUntil" ELSE "Wait"
      ]_vars

\* While an update is scheduled, input has arrived and MainEventsCleared has
\* passed without a UI set: the loop waits for the timer.
C35_Witness ==
    /\ target_arch = "native"
    /\ event = "MainEventsCleared"
    /\ next_update # <<>>
    /\ ui_update_needed
    /\ ~InSeq("set_widgets", handler_calls)
    /\ control_flow = "WaitUntil"

C37_ExitReturnsAtOnce ==
    [][ event' \in {"CloseRequested", "KeyboardInput(Escape)",
                    "KeyboardInput(Escape, Released)"} =>
          /\ control_flow' = "Exit"
          /\ handler_calls' = <<>>
          /\ RendererUnchanged
          /\ UNCHANGED <<display, next_update, ui_update_needed,
                         should_update_ui, needs_next_update>>
      ]_vars

\* The Escape key has gone up after a frame was drawn, in a loop that would
\* otherwise poll on (wasm) or wait for its deadline (native).
C37_Witness ==
    /\ event = "KeyboardInput(Escape, Released)"
    /\ control_flow = "Exit"
    /\ pc = "done"
    /\ gl_calls # <<>>
    /\ \/ target_arch = "wasm32" /\ needs_next_update
       \/ target_arch = "native" /\ next_update # <<>>

(***************************************************************************)
(* C38.  In the wasm event loop, after every handler that returns without  *)
(* exiting, control flow is Poll if needs_next_update is true and Wait     *)
(* otherwise.  needs_next_update becomes false only in a handler that set  *)
(* the UI and found nothing to redraw (draw_if_changed returned None).  A  *)
(* converted input event or a RedrawRequested raises should_update_ui,     *)
(* which stays up until the UI is set, and the next MainEventsCleared sets *)
(* the UI: the loop polls on after a UI set that redrew, and waits after   *)
(* one that did not.                                                       *)
(***************************************************************************)
\* The handler of this step has returned and the loop goes on.
Returned == event' \notin ExitEvents /\ pc' # "panicked"

C38_WasmPolling ==
    [][ target_arch = "wasm32" =>
          /\ Returned =>
                control_flow' = IF needs_next_update' THEN "Poll" ELSE "Wait"
          /\ (needs_next_update /\ ~needs_next_update') =>
                /\ SetsUi
                /\ handler_calls'[Len(handler_calls')] = "ui.draw_if_changed -> None"
          /\ (event' = "RedrawRequested" \/ event' \in ConvertedEvents) =>
                should_update_ui'
          /\ (should_update_ui /\ ~SetsUi) => should_update_ui'
          /\ (should_update_ui /\ event' = "MainEventsCleared") => SetsUi
          /\ SetsUi => event' = "MainEventsCleared" /\ ~should_update_ui'
          /\ (SetsUi /\ Returned) =>
                IF InSeq("ui.draw_if_changed -> Some", handler_calls')
                THEN InSeq("renderer.draw", handler_calls') /\ control_flow' = "Poll"
                ELSE control_flow' = "Wait"
      ]_vars

\* The loop has drawn, has then found nothing to redraw and has gone idle.
C38_Witness ==
    /\ target_arch = "wasm32"
    /\ event = "MainEventsCleared"
    /\ gl_calls # <<>>
    /\ InSeq("ui.draw_if_changed -> None", handler_calls)
    /\ ~needs_next_update
    /\ control_flow = "Wait"

(***************************************************************************)
(* C39.  The coordinate mapping fill uses is a deterministic linear        *)
(* function of its input: at scale factor 1 and a framebuffer of W x H     *)
(* pixels, the position of every vertex is (x / (W/2), y / (H/2)) for the  *)
(* logical point (x, y) it was made from, so x = W/2 maps to 1, x = -W/2   *)
(* to -1 and x = 0 to 0, likewise y with H, and two vertices made from the *)
(* same point have the same position.  (Logical coordinates are counted in *)
(* half units, so W/2 is W of them; device coordinates in 1/NdcScale.)     *)
(***************************************************************************)
\* The logical point vertices[v] of a frame of rects was made from, given
\* cum = CumulativeVertices: a corner of the rect of its primitive.
CornerOf(cum, v) ==
    LET i == Producer(cum, v)
        r == stream[i].rect
    IN  QuadCorners(r.left, r.right, r.bottom, r.top)[v - cum[i - 1]]

C39_LinearMapping ==
    (pc \in {"filling", "done"} /\ display.dpi = 1) =>
      \A cum \in {CumulativeVertices} :
        /\ Len(vertices) = cum[Len(stream)]
        /\ \A v \in 1..Len(vertices) :
              \E c \in {CornerOf(cum, v)} : \E pos \in {vertices[v].position} :
                  /\ pos[1] * display.w = c[1] * NdcScale
                  /\ pos[2] * display.h = c[2] * NdcScale
                  /\ c[1] = display.w => pos[1] = NdcScale
                  /\ c[1] = -display.w => pos[1] = -NdcScale
                  /\ c[1] = 0 => pos[1] = 0
                  /\ c[2] = display.h => pos[2] = NdcScale
                  /\ c[2] = -display.h => pos[2] = -NdcScale
                  /\ c[2] = 0 => pos[2] = 0
        /\ \A v, u \in 1..Len(vertices) :
              CornerOf(cum, v) = CornerOf(cum, u)
                  => vertices[v].position = vertices[u].position

\* A finished frame whose vertices lie on both edges and on the centre line
\* of each axis, two of its primitives having the same rect.
C39_Witness ==
    /\ pc = "done"
    /\ display = Window800x600
    /\ {vertices[v].position[1] : v \in 1..Len(vertices)} = {-NdcScale, 0, NdcScale}
    /\ {vertices[v].position[2] : v \in 1..Len(vertices)} = {-NdcScale, 0, NdcScale}
    /\ \E i, j \in 1..Len(stream) :
          /\ i < j
          /\ stream[i].kind = "Rectangle"
          /\ stream[j].kind = "Image"
          /\ stream[i].rect = stream[j].rect

====
